---- MODULE Spec2Model ----
(***************************************************************************)
(* A model of the tree-walking Lox interpreter of part1: the scope stack   *)
(* of environment.rs and the evaluator of interpreter.rs.                  *)
(*                                                                         *)
(* Two specifications share the variable `values` (Enviornment.values):    *)
(*   SpecEnv  drives the five operations of Enviornment directly;          *)
(*   Spec     runs Interpreter::interpret on a program, one step of        *)
(*            execute / evaluate at a time, with the host call stack       *)
(*            (the pending Rust frames) held in `kont`.                    *)
(***************************************************************************)
EXTENDS Integers, Sequences, FiniteSets, TLC

\* ------------------------------------------------------------------ bounds

\* push_scope is offered in SpecEnv while fewer than MaxScopes scopes exist.
MaxScopes == 3
\* clock() answers with a timestamp drawn from 0..MaxClock.
MaxClock == 1
\* The loop programs of Spec count up to MaxLoop.
MaxLoop == 2
\* The source texts of SpecScan have at most MaxSource characters.
MaxSource == 4
\* The operator chains of SpecParse have at most MaxChain operators.
MaxChain == 2
MaxTokens == 3
MaxRuns == 2

\* ----------------------------------------------------------------- objects
\* interpreter.rs:11-19, enum Object.  A Double is kept as a normalised
\* fraction num/den (den > 0); den = 0 encodes +inf (num = 1), -inf
\* (num = -1) and NaN (num = 0).  Rounding of f64 is not modelled.

Nil == [t |-> "Nil"]
Boolean(b) == [t |-> "Boolean", b |-> b]
Frac(n, d) == [t |-> "Double", num |-> n, den |-> d]
Double(n) == Frac(n, 1)
String(s) == [t |-> "String", s |-> s]
\* Callable(LoxCallableWrapper{inner: LoxFunction{params, body}}).  `closure`
\* is a history field the Rust struct does not have: the scope stack as it
\* was when the declaration was executed.  No step of the evaluator reads it.
LoxFunction(params, body, closure) ==
    [t |-> "Callable", f |-> "LoxFunction", params |-> params, body |-> body,
     closure |-> closure]
LoxBuiltinClock == [t |-> "Callable", f |-> "LoxBuiltinClock"]

\* A truthiness in which 0 and the empty string are falsy too.
truthy_ZeroFalsy(o) ==
    o \notin {Nil, Boolean(FALSE), Double(0), String("")}
\* interpreter.rs:113-119
truthy(o) ==
    CASE o.t = "Nil" -> FALSE
      [] o.t = "Boolean" -> o.b
      [] OTHER -> TRUE

\* ------------------------------------------------------------- environment
\* environment.rs.  A scope is a function from the names it binds to Objects;
\* `values` is the Vec of scopes, innermost last.

EmptyScope == [n \in {} |-> Nil]

Insert(scope, name, value) ==
    [n \in (DOMAIN scope) \cup {name} |-> IF n = name THEN value ELSE scope[n]]

\* environment.rs:11-24
EnvNew == <<EmptyScope>>

\* environment.rs:26-28
push_scope(vs) == Append(vs, EmptyScope)

\* environment.rs:30-33: assert!(len > 1) panics and leaves values alone.
pop_scope_NoAssert(vs) ==
    [panic |-> FALSE, values |-> SubSeq(vs, 1, Len(vs) - 1)]

pop_scope(vs) ==
    IF Len(vs) > 1
    THEN [panic |-> FALSE, values |-> SubSeq(vs, 1, Len(vs) - 1)]
    ELSE [panic |-> TRUE, values |-> vs]

\* environment.rs:35-40
define_Outermost(vs, name, value) ==
    [vs EXCEPT ![1] = Insert(vs[1], name, value)]

define(vs, name, value) ==
    [vs EXCEPT ![Len(vs)] = Insert(vs[Len(vs)], name, value)]

\* The index of the innermost scope binding name, 0 when none does:
\* iter().rev().find(..) of environment.rs:43 and :52.
FindScope(vs, name) ==
    LET hits == {i \in 1..Len(vs) : name \in DOMAIN vs[i]}
    IN IF hits = {} THEN 0 ELSE CHOOSE i \in hits : \A j \in hits : j <= i

UndefinedVariable(name) == [kind |-> "Undefined variable", name |-> name]

\* environment.rs:42-49
assign_OrDefine(vs, name, value) ==
    LET i == FindScope(vs, name)
    IN IF i > 0
       THEN [ok |-> TRUE, values |-> [vs EXCEPT ![i] = Insert(vs[i], name, value)]]
       ELSE [ok |-> TRUE, values |-> define(vs, name, value)]

assign(vs, name, value) ==
    LET i == FindScope(vs, name)
    IN IF i > 0
       THEN [ok |-> TRUE, values |-> [vs EXCEPT ![i] = Insert(vs[i], name, value)]]
       ELSE [ok |-> FALSE, err |-> UndefinedVariable(name), values |-> vs]

\* environment.rs:51-57
get_Outermost(vs, name) ==
    LET hits == {i \in 1..Len(vs) : name \in DOMAIN vs[i]}
    IN IF hits = {}
       THEN [ok |-> FALSE, err |-> UndefinedVariable(name)]
       ELSE [ok |-> TRUE, v |-> vs[CHOOSE i \in hits : \A j \in hits : i <= j][name]]

get(vs, name) ==
    LET i == FindScope(vs, name)
    IN IF i > 0
       THEN [ok |-> TRUE, v |-> vs[i][name]]
       ELSE [ok |-> FALSE, err |-> UndefinedVariable(name)]

\* ------------------------------------------------------------ tokens, AST
\* tokens.rs: Token{token_type, line}; parser.rs:12-33: Expr and Stmt.
\* An Option is a sequence of length 0 (None) or 1 (Some).

Tok(tt, line) == [tt |-> tt, line |-> line]
NumberTok(n, line) == [tt |-> "NUMBER", num |-> n, den |-> 1, line |-> line]
StringTok(s, line) == [tt |-> "STRING", s |-> s, line |-> line]
IdentTok(name, line) == [tt |-> "IDENTIFIER", name |-> name, line |-> line]

Literal(t) == [e |-> "Literal", t |-> t]
Grouping(x) == [e |-> "Grouping", x |-> x]
Unary(t, x) == [e |-> "Unary", t |-> t, x |-> x]
Binary(l, t, r) == [e |-> "Binary", l |-> l, t |-> t, r |-> r]
Variable(n) == [e |-> "Variable", n |-> n]
Assign(n, v) == [e |-> "Assign", n |-> n, v |-> v]
Logical(l, o, r) == [e |-> "Logical", l |-> l, o |-> o, r |-> r]
Call(callee, args) == [e |-> "Call", callee |-> callee, args |-> args]

SExpr(x) == [s |-> "Expr", x |-> x]
SPrint(x) == [s |-> "Print", x |-> x]
SVar(name, init) == [s |-> "Var", name |-> name, init |-> init]
SBlock(stmts) == [s |-> "Block", stmts |-> stmts]
SIf(c, th, el) == [s |-> "If", c |-> c, th |-> th, el |-> el]
SWhile(c, body) == [s |-> "While", c |-> c, body |-> body]
SFunction(name, params, body) ==
    [s |-> "Function", name |-> name, params |-> params, body |-> body]
SReturn(kw, v) == [s |-> "Return", kw |-> kw, v |-> v]

\* ------------------------------------------------------------- f64 values

Abs(n) == IF n < 0 THEN -n ELSE n
Sign(n) == IF n < 0 THEN -1 ELSE IF n > 0 THEN 1 ELSE 0

RECURSIVE Gcd(_, _)
Gcd(a, b) == IF b = 0 THEN a ELSE Gcd(b, a % b)

\* The Double n/d in lowest terms; d = 0 gives inf, -inf or NaN.
Norm(n, d) ==
    IF d = 0 THEN Frac(Sign(n), 0)
    ELSE LET g == Gcd(Abs(n), Abs(d))
         IN Frac(Sign(d) * (n \div g), Abs(d) \div g)

DNeg(x) == Frac(-x.num, x.den)
DAdd(x, y) ==
    IF x.den = 0 /\ y.den = 0
    THEN (IF x.num = y.num THEN x ELSE Frac(0, 0))
    ELSE IF x.den = 0 THEN x
    ELSE IF y.den = 0 THEN y
    ELSE Norm(x.num * y.den + y.num * x.den, x.den * y.den)
DMul(x, y) == Norm(x.num * y.num, x.den * y.den)
\* 1/x: 1/0 is inf, 1/inf is 0, 1/NaN is NaN.
DRecip(x) ==
    IF x.den = 0 THEN (IF x.num = 0 THEN x ELSE Frac(0, 1))
    ELSE Norm(x.den, x.num)
DIsNaN(x) == x.den = 0 /\ x.num = 0
DLess(x, y) ==
    /\ ~DIsNaN(x)
    /\ ~DIsNaN(y)
    /\ IF x.den = 0 /\ y.den = 0 THEN x.num < y.num
       ELSE IF x.den = 0 THEN x.num < 0
       ELSE IF y.den = 0 THEN y.num > 0
       ELSE x.num * y.den < y.num * x.den
DEq(x, y) == ~DIsNaN(x) /\ ~DIsNaN(y) /\ x.num = y.num /\ x.den = y.den

\* An equality under which every value equals itself.
ObjEq_Reflexive(l, r) ==
    l = r
\* interpreter.rs:11 (derive PartialEq) and :35-39 (a Callable equals nothing)
ObjEq(l, r) ==
    /\ l.t = r.t
    /\ CASE l.t = "Nil" -> TRUE
         [] l.t = "Boolean" -> l.b = r.b
         [] l.t = "Double" -> DEq(l, r)
         [] l.t = "String" -> l.s = r.s
         [] OTHER -> FALSE

\* interpreter.rs:100-111; a Double that is no integer prints as num/den here.
Display(o) ==
    CASE o.t = "Boolean" -> (IF o.b THEN "true" ELSE "false")
      [] o.t = "Double" ->
            (IF o.den = 1 THEN ToString(o.num)
             ELSE IF o.den = 0
                  THEN (IF o.num = 0 THEN "NaN" ELSE IF o.num > 0 THEN "inf" ELSE "-inf")
                  ELSE ToString(o.num) \o "/" \o ToString(o.den))
      [] o.t = "String" -> o.s
      [] o.t = "Callable" -> "...calable..."
      [] OTHER -> "nil"

\* ------------------------------------------------------------- expressions
\* Result<Object>: [ok |-> TRUE, v |-> object] or [ok |-> FALSE, err |-> error].

Ok(v) == [ok |-> TRUE, v |-> v]
Err(e) == [ok |-> FALSE, err |-> e]
\* interpreter.rs:89-98: the context every evaluator error carries.
LoxRuntimeError(t, message) ==
    [kind |-> "LoxRuntimeError", message |-> message, line |-> t.line]

\* interpreter.rs:187-202
evaluate_literal(t) ==
    CASE t.tt = "FALSE" -> Ok(Boolean(FALSE))
      [] t.tt = "TRUE" -> Ok(Boolean(TRUE))
      [] t.tt = "NUMBER" -> Ok(Frac(t.num, t.den))
      [] t.tt = "STRING" -> Ok(String(t.s))
      [] t.tt = "NIL" -> Ok(Nil)
      [] t.tt = "EOF" -> Ok(Nil)
      [] OTHER -> Err(LoxRuntimeError(t, "unexpected literal"))

\* interpreter.rs:142-149: the match of evaluate_unary on (operator, operand)
unary_op(t, right) ==
    CASE t.tt = "MINUS" /\ right.t = "Double" -> Ok(DNeg(right))
      [] t.tt = "BANG" -> Ok(Boolean(~truthy(right)))
      [] OTHER -> Err(LoxRuntimeError(t, ""))

\* An evaluator that coerces: `+` with one String operand concatenates the
\* displayed operands.
binary_op_Coercing(left, t, right) ==
    IF t.tt = "PLUS" /\ (left.t = "String" \/ right.t = "String")
    THEN Ok(String(Display(left) \o Display(right)))
    ELSE Err(LoxRuntimeError(t, "Bad binary expr"))
\* interpreter.rs:155-184: the match of evaluate_binary on (left, operator, right)
binary_op(left, t, right) ==
    LET nums == left.t = "Double" /\ right.t = "Double"
    IN CASE left.t = "String" /\ t.tt = "PLUS" /\ right.t = "String" ->
                Ok(String(left.s \o right.s))
         [] nums /\ t.tt = "PLUS" -> Ok(DAdd(left, right))
         [] nums /\ t.tt = "MINUS" -> Ok(DAdd(left, DNeg(right)))
         [] nums /\ t.tt = "STAR" -> Ok(DMul(left, right))
         [] nums /\ t.tt = "SLASH" -> Ok(DMul(left, DRecip(right)))
         [] nums /\ t.tt = "LESS" -> Ok(Boolean(DLess(left, right)))
         [] nums /\ t.tt = "LESS_EQUAL" ->
                Ok(Boolean(DLess(left, right) \/ DEq(left, right)))
         [] nums /\ t.tt = "GREATER" -> Ok(Boolean(DLess(right, left)))
         [] nums /\ t.tt = "GREATER_EQUAL" ->
                Ok(Boolean(DLess(right, left) \/ DEq(left, right)))
         [] t.tt = "EQUAL_EQUAL" -> Ok(Boolean(ObjEq(left, right)))
         [] t.tt = "BANG_EQUAL" -> Ok(Boolean(~ObjEq(left, right)))
         [] OTHER -> Err(LoxRuntimeError(t, "Bad binary expr"))

\* ------------------------------------------------------------------- state

VARIABLES
    values,     \* Enviornment.values: the scope stack, innermost last
    status,     \* "running", "done" (interpret returned), "panicked" (abort)
    envOp,      \* SpecEnv: the last Enviornment operation, its arguments, result
    envPrev,    \* SpecEnv: values before that operation
    prog,       \* Spec: the statement list handed to interpret
    pc,         \* Spec: index of interpret's current statement
    ctl,        \* Spec: what the evaluator is doing now
    kont,       \* Spec: the pending frames of execute / evaluate / call
    output,     \* Spec: the lines printed so far
    result,     \* Spec: what interpret returned
    failure,    \* Spec: the first runtime error raised, NoFailure before it
    source,     \* scan_tokens: the characters of the source text
    chars,      \* scan_tokens: index of the next character of `chars`
    cur_line,   \* scan_tokens: the line counter `line`
    tokens,     \* the Vec<Token> scan_tokens builds, Parser::parse reads
    scanned,    \* what scan_tokens returned
    diags,      \* the diagnostics LoxError::report was called with
    has_error,  \* Lox.has_error
    parsed,     \* what Parser::parse returned
    ran,        \* what Lox::run_with_env returned
    lines,      \* the sources a caller still has to run on this Lox
    opIn,       \* SpecOps, SpecSync: the operation applied and its operands
    opOut       \* SpecOps, SpecSync: what it gave

scanVars == <<source, chars, cur_line, tokens, scanned>>
loxVars == <<diags, has_error, parsed, ran, lines>>
opVars == <<opIn, opOut>>
frontVars == <<scanVars, loxVars, opVars>>
vars == <<values, status, envOp, envPrev, prog, pc, ctl, kont, output, result, failure,
          frontVars>>
envVars == <<envOp, envPrev>>
interpVars == <<prog, pc, ctl, kont, output, result, failure>>

NoFailure == [kind |-> "none"]
Idle == [mode |-> "idle"]
NoResult == [pending |-> TRUE]

\* Nothing scanned yet (scanner.rs:7-9).
ScanIdle ==
    /\ source = <<>>
    /\ chars = 1
    /\ cur_line = 1
    /\ tokens = <<>>
    /\ scanned = NoResult
\* A fresh Lox (lox.rs:30-35) that has run nothing.
LoxIdle ==
    /\ diags = <<>>
    /\ has_error = FALSE
    /\ parsed = NoResult
    /\ ran = NoResult
    /\ lines = <<>>
\* No operator applied.
OpsIdle ==
    /\ opIn = [op |-> "none"]
    /\ opOut = NoResult
FrontIdle == ScanIdle /\ LoxIdle /\ OpsIdle

\* --------------------------------------------------------- SpecEnv actions
\* The names and values the operations of SpecEnv are called with.
EnvNames == {"a", "b"}
EnvVals == {Double(1), Double(2)}

\* A new Enviornment and no interpreter at work.
EnvFresh ==
    /\ values = EnvNew
    /\ status = "running"
    /\ envOp = [op |-> "new"]
    /\ envPrev = EnvNew
    /\ prog = <<>>
    /\ pc = 1
    /\ ctl = Idle
    /\ kont = <<>>
    /\ output = <<>>
    /\ result = NoResult
    /\ failure = NoFailure

InitEnv == EnvFresh /\ FrontIdle

DoPushScope ==
    /\ status = "running"
    /\ Len(values) < MaxScopes
    /\ values' = push_scope(values)
    /\ envOp' = [op |-> "push_scope"]
    /\ envPrev' = values
    /\ UNCHANGED <<status, interpVars, frontVars>>

DoPopScope ==
    /\ status = "running"
    /\ LET r == pop_scope(values)
       IN /\ values' = r.values
          /\ status' = IF r.panic THEN "panicked" ELSE status
    /\ envOp' = [op |-> "pop_scope"]
    /\ envPrev' = values
    /\ UNCHANGED <<interpVars, frontVars>>

DoDefine ==
    /\ status = "running"
    /\ \E name \in EnvNames, value \in EnvVals :
          /\ values' = define(values, name, value)
          /\ envOp' = [op |-> "define", name |-> name, value |-> value]
    /\ envPrev' = values
    /\ UNCHANGED <<status, interpVars, frontVars>>

DoAssign ==
    /\ status = "running"
    /\ \E name \in EnvNames, value \in EnvVals :
          LET r == assign(values, name, value)
          IN /\ values' = r.values
             /\ envOp' = [op |-> "assign", name |-> name, value |-> value,
                          ok |-> r.ok]
    /\ envPrev' = values
    /\ UNCHANGED <<status, interpVars, frontVars>>

DoGet ==
    /\ status = "running"
    /\ \E name \in EnvNames :
          envOp' = [op |-> "get", name |-> name, res |-> get(values, name)]
    /\ envPrev' = values
    /\ UNCHANGED <<values, status, interpVars, frontVars>>

NextEnv == DoPushScope \/ DoPopScope \/ DoDefine \/ DoAssign \/ DoGet

SpecEnv == InitEnv /\ [][NextEnv]_vars

\* ------------------------------------------------------ evaluator: control
\* ctl is the position of the evaluator: about to execute a statement, about
\* to evaluate an expression, holding the Result a call of execute (retS) or
\* evaluate (retE) has just returned, or between two arguments of a call.
\* d0 of retS is a history field: the scope depth when that statement began.

Exec(stmt) == [mode |-> "exec", stmt |-> stmt]
Eval(expr) == [mode |-> "eval", expr |-> expr]
RetS(res, d0) == [mode |-> "retS", res |-> res, d0 |-> d0]
RetE(res) == [mode |-> "retE", res |-> res]
ArgsNext == [mode |-> "args"]

\* interpreter.rs:83-87, enum StmtResult inside Result
Noop == [ok |-> TRUE, sr |-> "Noop"]
Return(v) == [ok |-> TRUE, sr |-> "Return", v |-> v]
\* matches!(r, Ok(StmtResult::Noop))
IsNoop(res) == res.ok /\ res.sr = "Noop"

Running == status = "running"
Top == kont[Len(kont)]
Pop == SubSeq(kont, 1, Len(kont) - 1)
Push(f) == Append(kont, f)
Replace(f) == [kont EXCEPT ![Len(kont)] = f]
\* The innermost pending frame is of kind k.
At(k) == Running /\ kont # <<>> /\ kont[Len(kont)].k = k
Executing(kind) == Running /\ ctl.mode = "exec" /\ ctl.stmt.s = kind
Evaluating(kind) == Running /\ ctl.mode = "eval" /\ ctl.expr.e = kind

\* Move the evaluator to c; the first Err any step produces is remembered.
Goto(c) ==
    /\ ctl' = c
    /\ failure' = IF failure = NoFailure /\ c.mode \in {"retS", "retE"} /\ ~c.res.ok
                  THEN c.res.err
                  ELSE failure

Fixed == UNCHANGED <<envOp, envPrev, prog, frontVars>>

\* --------------------------------------------------- Interpreter::interpret
\* interpreter.rs:343-355: execute the statements in order; collect() into
\* Result<()> stops at the first Err, and any Ok (a Return too) goes on.

InterpretStep ==
    /\ Running /\ ctl.mode = "idle" /\ pc <= Len(prog)
    /\ Goto(Exec(prog[pc]))
    /\ UNCHANGED <<values, status, pc, kont, output, result>> /\ Fixed

InterpretCollect ==
    /\ Running /\ ctl.mode = "retS" /\ kont = <<>>
    /\ IF ctl.res.ok
       THEN /\ pc' = pc + 1
            /\ UNCHANGED <<status, result>>
       ELSE /\ status' = "done"
            /\ result' = [pending |-> FALSE, ok |-> FALSE, err |-> ctl.res.err]
            /\ UNCHANGED pc
    /\ Goto(Idle)
    /\ UNCHANGED <<values, kont, output>> /\ Fixed

InterpretOk ==
    /\ Running /\ ctl.mode = "idle" /\ pc > Len(prog)
    /\ status' = "done"
    /\ result' = [pending |-> FALSE, ok |-> TRUE]
    /\ UNCHANGED <<values, pc, ctl, kont, output, failure>> /\ Fixed

\* ----------------------------------------------------- Interpreter::execute

\* interpreter.rs:269-272
ExecPrint ==
    /\ Executing("Print")
    /\ kont' = Push([k |-> "Print", d0 |-> Len(values)])
    /\ Goto(Eval(ctl.stmt.x))
    /\ UNCHANGED <<values, status, pc, output, result>> /\ Fixed

PrintDone ==
    /\ At("Print") /\ ctl.mode = "retE"
    /\ output' = IF ctl.res.ok THEN Append(output, Display(ctl.res.v)) ELSE output
    /\ kont' = Pop
    /\ Goto(RetS(IF ctl.res.ok THEN Noop ELSE ctl.res, Top.d0))
    /\ UNCHANGED <<values, status, pc, result>> /\ Fixed

\* interpreter.rs:273-276
ExecExpr ==
    /\ Executing("Expr")
    /\ kont' = Push([k |-> "Expr", d0 |-> Len(values)])
    /\ Goto(Eval(ctl.stmt.x))
    /\ UNCHANGED <<values, status, pc, output, result>> /\ Fixed

ExprDone ==
    /\ At("Expr") /\ ctl.mode = "retE"
    /\ kont' = Pop
    /\ Goto(RetS(IF ctl.res.ok THEN Noop ELSE ctl.res, Top.d0))
    /\ UNCHANGED <<values, status, pc, output, result>> /\ Fixed

\* interpreter.rs:277-285
ExecVar ==
    /\ Executing("Var")
    /\ IF ctl.stmt.init = <<>>
       THEN /\ values' = define(values, ctl.stmt.name, Nil)
            /\ Goto(RetS(Noop, Len(values)))
            /\ UNCHANGED kont
       ELSE /\ kont' = Push([k |-> "Var", name |-> ctl.stmt.name, d0 |-> Len(values)])
            /\ Goto(Eval(ctl.stmt.init[1]))
            /\ UNCHANGED values
    /\ UNCHANGED <<status, pc, output, result>> /\ Fixed

VarDone ==
    /\ At("Var") /\ ctl.mode = "retE"
    /\ values' = IF ctl.res.ok THEN define(values, Top.name, ctl.res.v) ELSE values
    /\ kont' = Pop
    /\ Goto(RetS(IF ctl.res.ok THEN Noop ELSE ctl.res, Top.d0))
    /\ UNCHANGED <<status, pc, output, result>> /\ Fixed

\* interpreter.rs:288-293: take_until yields the results up to and including
\* the first that is not Ok(Noop); the block goes on after statement i of n
\* only when its result is Ok(Noop) and a statement is left.
block_continues(res, i, n) == IsNoop(res) /\ i < n

\* interpreter.rs:286-287 (296 for the empty block)
ExecBlock ==
    /\ Executing("Block")
    /\ IF ctl.stmt.stmts = <<>>
       THEN /\ values' = pop_scope(push_scope(values)).values
            /\ Goto(RetS(Noop, Len(values)))
            /\ UNCHANGED kont
       ELSE /\ values' = push_scope(values)
            /\ kont' = Push([k |-> "Block", stmts |-> ctl.stmt.stmts, i |-> 1,
                             d0 |-> Len(values)])
            /\ Goto(Exec(ctl.stmt.stmts[1]))
    /\ UNCHANGED <<status, pc, output, result>> /\ Fixed

\* The scope stack a block leaves behind: interpreter.rs:295, whatever res is.
block_exit_PopOnOk(vs, res) ==
    IF res.ok THEN pop_scope(vs) ELSE [panic |-> FALSE, values |-> vs]

block_exit(vs, res) == pop_scope(vs)

\* interpreter.rs:290-296
BlockStep ==
    /\ At("Block") /\ ctl.mode = "retS"
    /\ IF block_continues(ctl.res, Top.i, Len(Top.stmts))
       THEN /\ kont' = Replace([Top EXCEPT !.i = @ + 1])
            /\ Goto(Exec(Top.stmts[Top.i + 1]))
            /\ UNCHANGED <<values, status>>
       ELSE LET r == block_exit(values, ctl.res)
            IN /\ values' = r.values
               /\ status' = IF r.panic THEN "panicked" ELSE status
               /\ kont' = Pop
               /\ Goto(RetS(ctl.res, Top.d0))
    /\ UNCHANGED <<pc, output, result>> /\ Fixed

\* interpreter.rs:298-299
ExecIf ==
    /\ Executing("If")
    /\ kont' = Push([k |-> "If", th |-> ctl.stmt.th, el |-> ctl.stmt.el,
                     d0 |-> Len(values)])
    /\ Goto(Eval(ctl.stmt.c))
    /\ UNCHANGED <<values, status, pc, output, result>> /\ Fixed

\* interpreter.rs:299-305
IfCond ==
    /\ At("If") /\ ctl.mode = "retE"
    /\ IF ~ctl.res.ok
       THEN kont' = Pop /\ Goto(RetS(ctl.res, Top.d0))
       ELSE IF truthy(ctl.res.v)
       THEN UNCHANGED kont /\ Goto(Exec(Top.th))
       ELSE IF Top.el # <<>>
       THEN UNCHANGED kont /\ Goto(Exec(Top.el[1]))
       ELSE kont' = Pop /\ Goto(RetS(Noop, Top.d0))
    /\ UNCHANGED <<values, status, pc, output, result>> /\ Fixed

\* interpreter.rs:300-302: the branch's result is the statement's result.
IfDone ==
    /\ At("If") /\ ctl.mode = "retS"
    /\ kont' = Pop
    /\ Goto(RetS(ctl.res, Top.d0))
    /\ UNCHANGED <<values, status, pc, output, result>> /\ Fixed

\* interpreter.rs:307-308
ExecWhile ==
    /\ Executing("While")
    /\ kont' = Push([k |-> "While", c |-> ctl.stmt.c, body |-> ctl.stmt.body,
                     d0 |-> Len(values)])
    /\ Goto(Eval(ctl.stmt.c))
    /\ UNCHANGED <<values, status, pc, output, result>> /\ Fixed

\* interpreter.rs:308, 314
WhileCond ==
    /\ At("While") /\ ctl.mode = "retE"
    /\ IF ~ctl.res.ok
       THEN kont' = Pop /\ Goto(RetS(ctl.res, Top.d0))
       ELSE IF truthy(ctl.res.v)
       THEN UNCHANGED kont /\ Goto(Exec(Top.body))
       ELSE kont' = Pop /\ Goto(RetS(Noop, Top.d0))
    /\ UNCHANGED <<values, status, pc, output, result>> /\ Fixed

\* interpreter.rs:310: the loop returns r unless r is Ok(Noop).
while_exits_OnErrOnly(res) == ~res.ok

while_exits(res) == ~IsNoop(res)

\* interpreter.rs:309-313
WhileBody ==
    /\ At("While") /\ ctl.mode = "retS"
    /\ IF while_exits(ctl.res)
       THEN kont' = Pop /\ Goto(RetS(ctl.res, Top.d0))
       ELSE UNCHANGED kont /\ Goto(Eval(Top.c))
    /\ UNCHANGED <<values, status, pc, output, result>> /\ Fixed

\* interpreter.rs:316-327
ExecFunction ==
    /\ Executing("Function")
    /\ values' = define(values, ctl.stmt.name,
                        LoxFunction(ctl.stmt.params, ctl.stmt.body, values))
    /\ Goto(RetS(Noop, Len(values)))
    /\ UNCHANGED <<status, pc, kont, output, result>> /\ Fixed

\* interpreter.rs:328-339
ExecReturn ==
    /\ Executing("Return")
    /\ IF ctl.stmt.v = <<>>
       THEN UNCHANGED kont /\ Goto(RetS(Return(Nil), Len(values)))
       ELSE /\ kont' = Push([k |-> "Return", d0 |-> Len(values)])
            /\ Goto(Eval(ctl.stmt.v[1]))
    /\ UNCHANGED <<values, status, pc, output, result>> /\ Fixed

ReturnDone ==
    /\ At("Return") /\ ctl.mode = "retE"
    /\ kont' = Pop
    /\ Goto(RetS(IF ctl.res.ok THEN Return(ctl.res.v) ELSE ctl.res, Top.d0))
    /\ UNCHANGED <<values, status, pc, output, result>> /\ Fixed

\* ---------------------------------------------------- Interpreter::evaluate

UndefinedMessage(name) == "Undefined variable '" \o name \o "'"

\* interpreter.rs:212
EvalLiteral ==
    /\ Evaluating("Literal")
    /\ Goto(RetE(evaluate_literal(ctl.expr.t)))
    /\ UNCHANGED <<values, status, pc, kont, output, result>> /\ Fixed

\* interpreter.rs:204-206, 213
EvalGrouping ==
    /\ Evaluating("Grouping")
    /\ Goto(Eval(ctl.expr.x))
    /\ UNCHANGED <<values, status, pc, kont, output, result>> /\ Fixed

\* interpreter.rs:214-224
EvalVariable ==
    /\ Evaluating("Variable")
    /\ LET n == ctl.expr.n
       IN IF n.tt = "IDENTIFIER"
          THEN LET r == get(values, n.name)
               IN Goto(RetE(IF r.ok THEN r
                            ELSE Err(LoxRuntimeError(n, UndefinedMessage(n.name)))))
          ELSE Goto(RetE(Ok(Nil)))
    /\ UNCHANGED <<values, status, pc, kont, output, result>> /\ Fixed

\* interpreter.rs:140-141
EvalUnary ==
    /\ Evaluating("Unary")
    /\ kont' = Push([k |-> "Unary", t |-> ctl.expr.t])
    /\ Goto(Eval(ctl.expr.x))
    /\ UNCHANGED <<values, status, pc, output, result>> /\ Fixed

\* interpreter.rs:141-149
UnaryDone ==
    /\ At("Unary") /\ ctl.mode = "retE"
    /\ kont' = Pop
    /\ Goto(RetE(IF ctl.res.ok THEN unary_op(Top.t, ctl.res.v) ELSE ctl.res))
    /\ UNCHANGED <<values, status, pc, output, result>> /\ Fixed

\* interpreter.rs:152-153
EvalBinary ==
    /\ Evaluating("Binary")
    /\ kont' = Push([k |-> "BinaryLeft", t |-> ctl.expr.t, r |-> ctl.expr.r])
    /\ Goto(Eval(ctl.expr.l))
    /\ UNCHANGED <<values, status, pc, output, result>> /\ Fixed

\* interpreter.rs:153-154
BinaryLeftDone ==
    /\ At("BinaryLeft") /\ ctl.mode = "retE"
    /\ IF ctl.res.ok
       THEN /\ kont' = Replace([k |-> "BinaryRight", t |-> Top.t, left |-> ctl.res.v])
            /\ Goto(Eval(Top.r))
       ELSE kont' = Pop /\ Goto(ctl)
    /\ UNCHANGED <<values, status, pc, output, result>> /\ Fixed

\* interpreter.rs:154-184
BinaryRightDone ==
    /\ At("BinaryRight") /\ ctl.mode = "retE"
    /\ kont' = Pop
    /\ Goto(RetE(IF ctl.res.ok THEN binary_op(Top.left, Top.t, ctl.res.v) ELSE ctl.res))
    /\ UNCHANGED <<values, status, pc, output, result>> /\ Fixed

\* interpreter.rs:225-226
EvalLogical ==
    /\ Evaluating("Logical")
    /\ kont' = Push([k |-> "Logical", o |-> ctl.expr.o, r |-> ctl.expr.r])
    /\ Goto(Eval(ctl.expr.l))
    /\ UNCHANGED <<values, status, pc, output, result>> /\ Fixed

\* An evaluator in which `and` returns a truthy left operand.
short_circuits_OnTruthy(o, left) ==
    truthy(left)
\* interpreter.rs:227-233: whether the left value is the result.
short_circuits(o, left) ==
    IF o.tt = "OR" THEN truthy(left) ELSE ~truthy(left)

\* interpreter.rs:226-234
LogicalLeftDone ==
    /\ At("Logical") /\ ctl.mode = "retE"
    /\ kont' = Pop
    /\ IF ~ctl.res.ok \/ short_circuits(Top.o, ctl.res.v)
       THEN Goto(ctl)
       ELSE Goto(Eval(Top.r))
    /\ UNCHANGED <<values, status, pc, output, result>> /\ Fixed

\* interpreter.rs:236-237
EvalAssign ==
    /\ Evaluating("Assign")
    /\ kont' = Push([k |-> "Assign", n |-> ctl.expr.n])
    /\ Goto(Eval(ctl.expr.v))
    /\ UNCHANGED <<values, status, pc, output, result>> /\ Fixed

\* interpreter.rs:237-248
AssignDone ==
    /\ At("Assign") /\ ctl.mode = "retE"
    /\ kont' = Pop
    /\ LET n == Top.n
       IN IF ~ctl.res.ok
          THEN UNCHANGED values /\ Goto(ctl)
          ELSE IF n.tt # "IDENTIFIER"
          THEN UNCHANGED values /\ Goto(RetE(Ok(Nil)))
          ELSE LET a == assign(values, n.name, ctl.res.v)
               IN /\ values' = a.values
                  /\ Goto(RetE(IF a.ok THEN get(a.values, n.name)
                               ELSE Err(LoxRuntimeError(n, UndefinedMessage(n.name)))))
    /\ UNCHANGED <<status, pc, output, result>> /\ Fixed

\* interpreter.rs:250-251
EvalCall ==
    /\ Evaluating("Call")
    /\ kont' = Push([k |-> "CallCallee", args |-> ctl.expr.args])
    /\ Goto(Eval(ctl.expr.callee))
    /\ UNCHANGED <<values, status, pc, output, result>> /\ Fixed

\* interpreter.rs:251-252
CallCalleeDone ==
    /\ At("CallCallee") /\ ctl.mode = "retE"
    /\ IF ctl.res.ok
       THEN /\ kont' = Replace([k |-> "CallArgs", callee |-> ctl.res.v,
                                args |-> Top.args, vals |-> <<>>])
            /\ Goto(ArgsNext)
       ELSE kont' = Pop /\ Goto(ctl)
    /\ UNCHANGED <<values, status, pc, output, result>> /\ Fixed

\* interpreter.rs:252-256: the arguments, left to right
CallNextArg ==
    /\ At("CallArgs") /\ ctl.mode = "args"
    /\ Len(Top.vals) < Len(Top.args)
    /\ Goto(Eval(Top.args[Len(Top.vals) + 1]))
    /\ UNCHANGED <<values, status, pc, kont, output, result>> /\ Fixed

\* interpreter.rs:256-257: collect() into Result stops at the first Err.
CallArgDone ==
    /\ At("CallArgs") /\ ctl.mode = "retE"
    /\ IF ctl.res.ok
       THEN /\ kont' = Replace([Top EXCEPT !.vals = Append(@, ctl.res.v)])
            /\ Goto(ArgsNext)
       ELSE kont' = Pop /\ Goto(ctl)
    /\ UNCHANGED <<values, status, pc, output, result>> /\ Fixed

Dispatching ==
    /\ At("CallArgs") /\ ctl.mode = "args"
    /\ Len(Top.vals) = Len(Top.args)

\* interpreter.rs:46-51, 58
identifier_name(t) ==
    IF t.tt = "IDENTIFIER" THEN t.name ELSE "FIXME: Something has gone wrong :P "

\* interpreter.rs:56-61: zip pairs parameters and arguments up to the shorter.
RECURSIVE BindFrom(_, _, _, _)
BindFrom(vs, params, args, i) ==
    IF i > Len(params) \/ i > Len(args) THEN vs
    ELSE BindFrom(define(vs, identifier_name(params[i]), args[i]), params, args, i + 1)

\* interpreter.rs:54-62 and 259-260: LoxFunction::call up to execute(body).
\* caller and closure of the frame are history fields.
CallFunction ==
    /\ Dispatching
    /\ Top.callee.t = "Callable" /\ Top.callee.f = "LoxFunction"
    /\ values' = BindFrom(push_scope(values), Top.callee.params, Top.vals, 1)
    /\ kont' = Replace([k |-> "CallBody", caller |-> Len(values),
                        closure |-> Top.callee.closure])
    /\ Goto(Exec(Top.callee.body))
    /\ UNCHANGED <<status, pc, output, result>> /\ Fixed

\* interpreter.rs:65-68: what the call evaluates to
call_result(res) == IF res.ok /\ res.sr = "Return" THEN res.v ELSE Nil

\* interpreter.rs:63-68 and 260
CallReturn ==
    /\ At("CallBody") /\ ctl.mode = "retS"
    /\ LET r == pop_scope(values)
       IN /\ values' = r.values
          /\ status' = IF r.panic THEN "panicked" ELSE status
    /\ kont' = Pop
    /\ Goto(RetE(Ok(call_result(ctl.res))))
    /\ UNCHANGED <<pc, output, result>> /\ Fixed

\* interpreter.rs:72-81 and 260
CallClock ==
    /\ Dispatching
    /\ Top.callee.t = "Callable" /\ Top.callee.f = "LoxBuiltinClock"
    /\ kont' = Pop
    /\ \E now \in 0..MaxClock : Goto(RetE(Ok(Double(now))))
    /\ UNCHANGED <<values, status, pc, output, result>> /\ Fixed

\* interpreter.rs:261: todo!() aborts the process.
CallNotCallable ==
    /\ Dispatching
    /\ Top.callee.t # "Callable"
    /\ status' = "panicked"
    /\ UNCHANGED <<values, pc, ctl, kont, output, result, failure>> /\ Fixed

\* ---------------------------------------------------------------- programs
\* The statement lists interpret is run on, as the parser would build them.
\* The comment over each gives its source text.

Var(name, line) == Variable(IdentTok(name, line))
Num(n, line) == Literal(NumberTok(n, line))
Str(s, line) == Literal(StringTok(s, line))
Op(tt, line) == Tok(tt, line)
Some(x) == <<x>>
None == <<>>

\* var a = v1; { var a = v2; print a; } print a;
ShadowProgram(v1, v2) ==
    << SVar("a", Some(Num(v1, 1))),
       SBlock(<< SVar("a", Some(Num(v2, 2))), SPrint(Var("a", 2)) >>),
       SPrint(Var("a", 3)) >>
ShadowPrograms == {ShadowProgram(v1, v2) : v1 \in 0..MaxLoop, v2 \in 0..MaxLoop}

\* var a = "global"; fun show() { print a; } { var a = "block"; show(); }
CallInBlockProgram ==
    << SVar("a", Some(Str("global", 1))),
       SFunction("show", <<>>, SBlock(<< SPrint(Var("a", 2)) >>)),
       SBlock(<< SVar("a", Some(Str("block", 3))),
                 SExpr(Call(Var("show", 3), <<>>)) >>) >>

\* var a = "global"; fun show() { print a; }
\* fun caller(a) { show(); } caller("argument");
CallInFunctionProgram ==
    << SVar("a", Some(Str("global", 1))),
       SFunction("show", <<>>, SBlock(<< SPrint(Var("a", 2)) >>)),
       SFunction("caller", << IdentTok("a", 3) >>,
                 SBlock(<< SExpr(Call(Var("show", 3), <<>>)) >>)),
       SExpr(Call(Var("caller", 4), << Str("argument", 4) >>)) >>
DeclarationSitePrograms == {CallInBlockProgram, CallInFunctionProgram}

\* fun outer() { var x = "captured"; fun inner() { return x; } return inner; }
\* var f = outer(); print f();
ClosureOfCallProgram ==
    << SFunction("outer", <<>>,
          SBlock(<< SVar("x", Some(Str("captured", 1))),
                    SFunction("inner", <<>>,
                        SBlock(<< SReturn(Op("RETURN", 2), Some(Var("x", 2))) >>)),
                    SReturn(Op("RETURN", 3), Some(Var("inner", 3))) >>)),
       SVar("f", Some(Call(Var("outer", 4), <<>>))),
       SPrint(Call(Var("f", 5), <<>>)) >>

\* var g; { var y = "captured"; fun h() { return y; } g = h; } print g();
ClosureOfBlockProgram ==
    << SVar("g", None),
       SBlock(<< SVar("y", Some(Str("captured", 2))),
                 SFunction("h", <<>>,
                     SBlock(<< SReturn(Op("RETURN", 3), Some(Var("y", 3))) >>)),
                 SExpr(Assign(IdentTok("g", 4), Var("h", 4))) >>),
       SPrint(Call(Var("g", 5), <<>>)) >>
ClosurePrograms == {ClosureOfCallProgram, ClosureOfBlockProgram}

\* print "one"; print nope; print "two";
ErrorAtTopProgram ==
    << SPrint(Str("one", 1)), SPrint(Var("nope", 2)), SPrint(Str("two", 3)) >>

\* fun f() { print nope; print "in"; } f(); print "after";
ErrorInFunctionProgram ==
    << SFunction("f", <<>>,
          SBlock(<< SPrint(Var("nope", 1)), SPrint(Str("in", 1)) >>)),
       SExpr(Call(Var("f", 2), <<>>)),
       SPrint(Str("after", 3)) >>

\* { var a = 1; { nope = 2; } print a; } print "after";
ErrorInBlockProgram ==
    << SBlock(<< SVar("a", Some(Num(1, 1))),
                 SBlock(<< SExpr(Assign(IdentTok("nope", 2), Num(2, 2))) >>),
                 SPrint(Var("a", 3)) >>),
       SPrint(Str("after", 4)) >>

\* var i = 0; while (i < MaxLoop) { if (-i) i = i + 1; else print "no"; }
\* (unary minus of a number is a number, which is truthy)
\* print 1 + "a";
ErrorInLoopProgram ==
    << SVar("i", Some(Num(0, 1))),
       SWhile(Binary(Var("i", 2), Op("LESS", 2), Num(MaxLoop, 2)),
          SBlock(<< SIf(Unary(Op("MINUS", 3), Var("i", 3)),
                        SExpr(Assign(IdentTok("i", 3),
                              Binary(Var("i", 3), Op("PLUS", 3), Num(1, 3)))),
                        Some(SPrint(Str("no", 3)))) >>)),
       SPrint(Binary(Num(1, 5), Op("PLUS", 5), Str("a", 5))) >>
ErrorPrograms ==
    {ErrorAtTopProgram, ErrorInFunctionProgram, ErrorInBlockProgram, ErrorInLoopProgram}

\* fun f(n) {
\*   var i = 0;
\*   while (i < MaxLoop) { if (i == n) { return i; print "sibling"; } i = i + 1; }
\*   print "end";
\* }
\* print f(k);
ReturnInLoopProgram(k) ==
    << SFunction("f", << IdentTok("n", 1) >>,
          SBlock(<< SVar("i", Some(Num(0, 2))),
                    SWhile(Binary(Var("i", 3), Op("LESS", 3), Num(MaxLoop, 3)),
                       SBlock(<< SIf(Binary(Var("i", 4), Op("EQUAL_EQUAL", 4), Var("n", 4)),
                                     SBlock(<< SReturn(Op("RETURN", 4), Some(Var("i", 4))),
                                               SPrint(Str("sibling", 4)) >>),
                                     None),
                                 SExpr(Assign(IdentTok("i", 5),
                                       Binary(Var("i", 5), Op("PLUS", 5), Num(1, 5)))) >>)),
                    SPrint(Str("end", 7)) >>)),
       SPrint(Call(Var("f", 9), << Num(k, 9) >>)) >>

\* fun g() { return; return "second"; } print g(); return "top"; print "next";
ReturnTwiceProgram ==
    << SFunction("g", <<>>,
          SBlock(<< SReturn(Op("RETURN", 1), None),
                    SReturn(Op("RETURN", 1), Some(Str("second", 1))) >>)),
       SPrint(Call(Var("g", 2), <<>>)),
       SReturn(Op("RETURN", 3), Some(Str("top", 3))),
       SPrint(Str("next", 4)) >>
ReturnPrograms == {ReturnInLoopProgram(k) : k \in 0..MaxLoop} \cup {ReturnTwiceProgram}

\* print "before"; <literal>(); print "after";
NotCallableProgram(t) ==
    << SPrint(Str("before", 1)),
       SExpr(Call(Literal(t), <<>>)),
       SPrint(Str("after", 3)) >>
NotCallablePrograms ==
    {NotCallableProgram(t) :
        t \in {Tok("NIL", 2), Tok("TRUE", 2), NumberTok(1, 2), StringTok("s", 2)}}

\* var t = clock(); {} print (t >= 0) and !(t == nil) or nope;
\* fun two(a, b) { print a; print b; } two(1); two(nope, 2);
MiscProgram ==
    << SVar("t", Some(Call(Var("clock", 1), <<>>))),
       SBlock(<<>>),
       SPrint(Logical(
          Logical(Grouping(Binary(Var("t", 2), Op("GREATER_EQUAL", 2), Num(0, 2))),
                  Op("AND", 2),
                  Unary(Op("BANG", 2),
                        Grouping(Binary(Var("t", 2), Op("EQUAL_EQUAL", 2),
                                        Literal(Tok("NIL", 2)))))),
          Op("OR", 2),
          Var("nope", 2))),
       SFunction("two", << IdentTok("a", 3), IdentTok("b", 3) >>,
          SBlock(<< SPrint(Var("a", 3)), SPrint(Var("b", 3)) >>)),
       SExpr(Call(Var("two", 4), << Num(1, 4) >>)),
       SExpr(Call(Var("two", 5), << Var("nope", 5), Num(2, 5) >>)) >>

\* var a = 1;
\* print 0 or (a = 2); print nil and (a = 3);
\* print nil or (a = 4); print "s" and (a = 5); print a;
LogicalProgram ==
    LET set(n, line) == Grouping(Assign(IdentTok("a", line), Num(n, line)))
    IN << SVar("a", Some(Num(1, 1))),
          SPrint(Logical(Num(0, 2), Op("OR", 2), set(2, 2))),
          SPrint(Logical(Literal(Tok("NIL", 3)), Op("AND", 3), set(3, 3))),
          SPrint(Logical(Literal(Tok("NIL", 4)), Op("OR", 4), set(4, 4))),
          SPrint(Logical(Str("s", 5), Op("AND", 5), set(5, 5))),
          SPrint(Var("a", 6)) >>

\* print <left>
\*       <op>
\*       <right>;   for every binary operator and operands of every kind
OperandExprs(line) ==
    {Literal(Tok("NIL", line)), Literal(Tok("TRUE", line)), Num(0, line), Num(1, line),
     Str("", line), Str("a", line), Var("clock", line)}
\* The token types Parser::equality, comparison, term, factor build a Binary of.
BinaryOps ==
    {"PLUS", "MINUS", "STAR", "SLASH", "LESS", "LESS_EQUAL", "GREATER", "GREATER_EQUAL",
     "EQUAL_EQUAL", "BANG_EQUAL"}
BinaryProgram(l, tt, r) == << SPrint(Binary(l, Op(tt, 2), r)) >>
BinaryPrograms ==
    {BinaryProgram(l, tt, r) : l \in OperandExprs(1), r \in OperandExprs(3), tt \in BinaryOps}

Programs ==
    ShadowPrograms \cup DeclarationSitePrograms \cup ClosurePrograms
        \cup ErrorPrograms \cup ReturnPrograms \cup NotCallablePrograms
        \cup {MiscProgram, LogicalProgram} \cup BinaryPrograms

\* -------------------------------------------------------------------- Spec
\* lox.rs:66-67: Interpreter::new_with_env (interpreter.rs:131-139) defines
\* clock in the environment, then interpret runs.

Init ==
    /\ prog \in Programs
    /\ values = define(EnvNew, "clock", LoxBuiltinClock)
    /\ status = "running"
    /\ envOp = [op |-> "new"]
    /\ envPrev = EnvNew
    /\ pc = 1
    /\ ctl = Idle
    /\ kont = <<>>
    /\ output = <<>>
    /\ result = NoResult
    /\ failure = NoFailure
    /\ FrontIdle

Next ==
    \/ InterpretStep \/ InterpretCollect \/ InterpretOk
    \/ ExecPrint \/ PrintDone \/ ExecExpr \/ ExprDone \/ ExecVar \/ VarDone
    \/ ExecBlock \/ BlockStep \/ ExecIf \/ IfCond \/ IfDone
    \/ ExecWhile \/ WhileCond \/ WhileBody \/ ExecFunction
    \/ ExecReturn \/ ReturnDone
    \/ EvalLiteral \/ EvalGrouping \/ EvalVariable \/ EvalUnary \/ UnaryDone
    \/ EvalBinary \/ BinaryLeftDone \/ BinaryRightDone
    \/ EvalLogical \/ LogicalLeftDone \/ EvalAssign \/ AssignDone
    \/ EvalCall \/ CallCalleeDone \/ CallNextArg \/ CallArgDone
    \/ CallFunction \/ CallReturn \/ CallClock \/ CallNotCallable

Spec == Init /\ [][Next]_vars

\* ----------------------------------------------------------------- SpecOps
\* The matches of evaluate_binary and evaluate_unary applied to operand
\* values: the values of literals and of declarations, and the numbers a
\* program computes from 0 and 1 with `/` and `-` (-1, inf and NaN among them).

OpLiterals ==
    {Nil, Boolean(TRUE), Boolean(FALSE), Double(0), Double(1), String(""), String("a"),
     LoxBuiltinClock, LoxFunction(<<>>, SBlock(<<>>), EnvNew)}
OpComputed ==
    {binary_op(l, Tok(tt, 1), r).v :
        l \in {Double(0), Double(1)}, r \in {Double(0), Double(1)}, tt \in {"SLASH", "MINUS"}}
Operands == OpLiterals \cup OpComputed
UnaryOps == {"MINUS", "BANG"}

OpInputs ==
    [op : BinaryOps, left : Operands, right : Operands]
        \cup [op : UnaryOps, right : Operands]

InitOps ==
    /\ EnvFresh /\ ScanIdle /\ LoxIdle
    /\ opIn \in OpInputs
    /\ opOut = NoResult

\* interpreter.rs:152-185, once both operands have values
ApplyBinary ==
    /\ opOut = NoResult /\ "left" \in DOMAIN opIn
    /\ opOut' = binary_op(opIn.left, Tok(opIn.op, 1), opIn.right)
    /\ UNCHANGED <<values, status, envVars, interpVars, scanVars, loxVars, opIn>>

\* interpreter.rs:140-150, once the operand has a value
ApplyUnary ==
    /\ opOut = NoResult /\ "left" \notin DOMAIN opIn
    /\ opOut' = unary_op(Tok(opIn.op, 1), opIn.right)
    /\ UNCHANGED <<values, status, envVars, interpVars, scanVars, loxVars, opIn>>

NextOps == ApplyBinary \/ ApplyUnary

SpecOps == InitOps /\ [][NextOps]_vars

\* ----------------------------------------------------------------- scanner
\* scanner.rs, scan_tokens: one action per arm of the match on the next
\* character.  `source` is the text, one character per element; `chars` is
\* the index of the character chars.next() yields.

Digits == {"0", "1", "2", "3", "4", "5", "6", "7", "8", "9"}
Letters ==
    {"a", "b", "c", "d", "e", "f", "g", "h", "i", "j", "k", "l", "m", "n", "o", "p", "q",
     "r", "s", "t", "u", "v", "w", "x", "y", "z", "A", "B", "C", "D", "E", "F", "G", "H",
     "I", "J", "K", "L", "M", "N", "O", "P", "Q", "R", "S", "T", "U", "V", "W", "X", "Y",
     "Z"}
\* scanner.rs:17-56
SingleTokens ==
    "(" :> "LEFT_PAREN" @@ ")" :> "RIGHT_PAREN" @@ "{" :> "LEFT_BRACE"
        @@ "}" :> "RIGHT_BRACE" @@ "," :> "COMMA" @@ "." :> "DOT" @@ "-" :> "MINUS"
        @@ "+" :> "PLUS" @@ ";" :> "SEMICOLON" @@ "*" :> "STAR"
\* scanner.rs:58-93: the token without and with a following `=`
PairTokens ==
    "!" :> <<"BANG", "BANG_EQUAL">> @@ "=" :> <<"EQUAL", "EQUAL_EQUAL">>
        @@ "<" :> <<"LESS", "LESS_EQUAL">> @@ ">" :> <<"GREATER", "GREATER_EQUAL">>
\* tokens.rs:126-146
keywords ==
    "and" :> "AND" @@ "class" :> "CLASS" @@ "else" :> "ELSE" @@ "false" :> "FALSE"
        @@ "fun" :> "FUN" @@ "for" :> "FOR" @@ "if" :> "IF" @@ "nil" :> "NIL"
        @@ "or" :> "OR" @@ "print" :> "PRINT" @@ "return" :> "RETURN"
        @@ "super" :> "SUPER" @@ "this" :> "THIS" @@ "true" :> "TRUE" @@ "var" :> "VAR"
        @@ "while" :> "WHILE"

Scanning == scanned = NoResult /\ chars <= Len(source)
\* chars.peek() once the current character has been taken.
PeekIs(c) == chars + 1 <= Len(source) /\ source[chars + 1] = c

\* `while chars.peek() is in S { chars.next() }` from index i: where it stops.
RECURSIVE SkipWhile(_, _)
SkipWhile(i, S) ==
    IF i <= Len(source) /\ source[i] \in S THEN SkipWhile(i + 1, S) ELSE i
\* `while chars.peek() is some character not in S { chars.next() }`
SkipTo(i, S) == SkipWhile(i, {source[k] : k \in 1..Len(source)} \ S)
\* value.into_iter().collect() of the characters i .. j-1
RECURSIVE Lexeme(_, _)
Lexeme(i, j) == IF i >= j THEN "" ELSE source[i] \o Lexeme(i + 1, j)
Newlines(i, j) == Cardinality({k \in i..(j - 1) : source[k] = "\n"})
\* scanner.rs:146-147: parse::<f64> of the digits i .. j-1, and of a fraction
RECURSIVE Decimal(_, _)
Decimal(i, j) ==
    IF i >= j THEN 0
    ELSE Decimal(i, j - 1) * 10
            + (CHOOSE n \in 0..9 : ToString(n) = source[j - 1])
RECURSIVE Pow10(_)
Pow10(k) == IF k = 0 THEN 1 ELSE 10 * Pow10(k - 1)

\* lox.rs:87-99: Lox::error calls report, which sets has_error.
error(ln, message) ==
    /\ diags' = Append(diags, [line |-> ln, message |-> message])
    /\ has_error' = TRUE
Quiet == UNCHANGED <<diags, has_error>>
\* tokens.push(token) and on to the next character at index i
Emit(t, i) ==
    /\ tokens' = Append(tokens, t)
    /\ chars' = i
    /\ UNCHANGED <<cur_line, scanned>>
    /\ Quiet
ScanKeeps ==
    UNCHANGED <<values, status, envVars, interpVars, source, parsed, ran, lines, opVars>>

\* scanner.rs:14
ScanBlank ==
    /\ Scanning /\ source[chars] \in {" ", "\t", "\r"}
    /\ chars' = chars + 1
    /\ UNCHANGED <<cur_line, tokens, scanned>> /\ Quiet /\ ScanKeeps

\* A scanner that does not count the lines.
ScanNewline_Uncounted ==
    /\ Scanning /\ source[chars] = "\n"
    /\ chars' = chars + 1
    /\ UNCHANGED <<cur_line, tokens, scanned>> /\ Quiet /\ ScanKeeps
\* scanner.rs:15
ScanNewline ==
    /\ Scanning /\ source[chars] = "\n"
    /\ chars' = chars + 1
    /\ cur_line' = cur_line + 1
    /\ UNCHANGED <<tokens, scanned>> /\ Quiet /\ ScanKeeps

\* scanner.rs:17-56
ScanSingle ==
    /\ Scanning /\ source[chars] \in DOMAIN SingleTokens
    /\ Emit(Tok(SingleTokens[source[chars]], cur_line), chars + 1)
    /\ ScanKeeps

\* A scanner without lookahead.
ScanPair_NoLookahead ==
    /\ Scanning /\ source[chars] \in DOMAIN PairTokens
    /\ Emit(Tok(PairTokens[source[chars]][1], cur_line), chars + 1)
    /\ ScanKeeps
\* scanner.rs:58-93
ScanPair ==
    /\ Scanning /\ source[chars] \in DOMAIN PairTokens
    /\ IF PeekIs("=")
       THEN Emit(Tok(PairTokens[source[chars]][2], cur_line), chars + 2)
       ELSE Emit(Tok(PairTokens[source[chars]][1], cur_line), chars + 1)
    /\ ScanKeeps

\* scanner.rs:95-106: a comment stops before its newline
ScanSlash ==
    /\ Scanning /\ source[chars] = "/"
    /\ IF PeekIs("/")
       THEN /\ chars' = SkipTo(chars + 1, {"\n"})
            /\ UNCHANGED <<cur_line, tokens, scanned>> /\ Quiet
       ELSE Emit(Tok("SLASH", cur_line), chars + 1)
    /\ ScanKeeps

\* A scanner that takes the end of the text for a closing quote.
unterminated_Never(close) ==
    FALSE
\* scanner.rs:117-118: chars.next() after the loop is None
unterminated(close) ==
    close > Len(source)

\* scanner.rs:108-126: on Err the Vec of tokens is dropped
ScanString ==
    /\ Scanning /\ source[chars] = "\""
    /\ LET close == SkipTo(chars + 1, {"\""})
           ln == cur_line + Newlines(chars + 1, close)
       IN /\ cur_line' = ln
          /\ IF unterminated(close)
             THEN /\ error(ln, "Unterminated string.")
                  /\ scanned' = [pending |-> FALSE, ok |-> FALSE,
                                  err |-> "Unterminated string."]
                  /\ tokens' = <<>>
                  /\ chars' = close
             ELSE /\ tokens' = Append(tokens, StringTok(Lexeme(chars + 1, close), ln))
                  /\ chars' = close + 1
                  /\ UNCHANGED scanned /\ Quiet
    /\ ScanKeeps

\* A scanner that takes a `.` after the digits into the number.
ScanNumber_TrailingDot ==
    /\ Scanning /\ source[chars] \in Digits
    /\ LET dot == SkipWhile(chars + 1, Digits)
           fraction == dot <= Len(source) /\ source[dot] = "."
           end == IF fraction THEN SkipWhile(dot + 1, Digits) ELSE dot
           value == IF fraction
                    THEN Norm(Decimal(chars, dot) * Pow10(end - dot - 1)
                                 + Decimal(dot + 1, end), Pow10(end - dot - 1))
                    ELSE Double(Decimal(chars, dot))
       IN Emit([tt |-> "NUMBER", num |-> value.num, den |-> value.den,
                line |-> cur_line], end)
    /\ ScanKeeps
\* scanner.rs:128-152
ScanNumber ==
    /\ Scanning /\ source[chars] \in Digits
    /\ LET dot == SkipWhile(chars + 1, Digits)
           fraction == /\ dot + 1 <= Len(source)
                       /\ source[dot] = "."
                       /\ source[dot + 1] \in Digits
           end == IF fraction THEN SkipWhile(dot + 1, Digits) ELSE dot
           value == IF fraction
                    THEN Norm(Decimal(chars, dot) * Pow10(end - dot - 1)
                                 + Decimal(dot + 1, end), Pow10(end - dot - 1))
                    ELSE Double(Decimal(chars, dot))
       IN Emit([tt |-> "NUMBER", num |-> value.num, den |-> value.den,
                line |-> cur_line], end)
    /\ ScanKeeps

\* A scanner that emits the keyword of a lexeme that starts with a reserved word.
ScanIdentifier_Prefix ==
    /\ Scanning /\ source[chars] \in Letters \cup {"_"}
    /\ LET end == SkipWhile(chars + 1, Letters \cup {"_"})
           words == {w \in DOMAIN keywords :
                        Len(w) <= end - chars /\ Lexeme(chars, chars + Len(w)) = w}
       IN Emit(IF words # {}
               THEN Tok(keywords[CHOOSE w \in words : TRUE], cur_line)
               ELSE IdentTok(Lexeme(chars, end), cur_line), end)
    /\ ScanKeeps
\* scanner.rs:154-175
ScanIdentifier ==
    /\ Scanning /\ source[chars] \in Letters \cup {"_"}
    /\ LET end == SkipWhile(chars + 1, Letters \cup {"_"})
           value == Lexeme(chars, end)
       IN Emit(IF value \in DOMAIN keywords
               THEN Tok(keywords[value], cur_line)
               ELSE IdentTok(value, cur_line), end)
    /\ ScanKeeps

\* A scanner that returns Err at a character it does not know.
ScanUnexpected_Aborts ==
    /\ Scanning
    /\ source[chars] \notin
          {" ", "\t", "\r", "\n", "/", "\"", "_"} \cup DOMAIN SingleTokens
              \cup DOMAIN PairTokens \cup Digits \cup Letters
    /\ error(cur_line, "Unexpected character '" \o source[chars] \o "'.")
    /\ chars' = chars + 1
    /\ scanned' = [pending |-> FALSE, ok |-> FALSE, err |-> "oops"]
    /\ tokens' = <<>>
    /\ UNCHANGED cur_line
    /\ ScanKeeps
\* scanner.rs:176-179
ScanUnexpected ==
    /\ Scanning
    /\ source[chars] \notin
          {" ", "\t", "\r", "\n", "/", "\"", "_"} \cup DOMAIN SingleTokens
              \cup DOMAIN PairTokens \cup Digits \cup Letters
    /\ error(cur_line, "Unexpected character '" \o source[chars] \o "'.")
    /\ chars' = chars + 1
    /\ UNCHANGED <<cur_line, tokens, scanned>>
    /\ ScanKeeps

\* scanner.rs:183-187
ScanEnd ==
    /\ scanned = NoResult /\ chars > Len(source)
    /\ tokens' = Append(tokens, Tok("EOF", cur_line))
    /\ scanned' = [pending |-> FALSE, ok |-> TRUE, tokens |-> tokens']
    /\ UNCHANGED <<chars, cur_line>> /\ Quiet /\ ScanKeeps

NextScan ==
    \/ ScanBlank \/ ScanNewline \/ ScanSingle \/ ScanPair \/ ScanSlash
    \/ ScanString \/ ScanNumber \/ ScanIdentifier \/ ScanUnexpected \/ ScanEnd

\* The source texts of SpecScan: every text of at most MaxSource characters
\* over one of these alphabets.
ScanAlphabet == {" ", "\n", ";", "=", "/", "\"", "1", ".", "o", "r", "@"}
NumberAlphabet == {"0", "1", ".", " "}
WordAlphabet == {"o", "r", "f", "i", "_", "1"}
PairAlphabet == {"!", "=", "<", ">", " "}
ScanAlphabets == {ScanAlphabet, NumberAlphabet, WordAlphabet, PairAlphabet}
Sources == UNION {[1..n -> A] : n \in 0..MaxSource, A \in ScanAlphabets}

InitScan ==
    /\ EnvFresh /\ LoxIdle /\ OpsIdle
    /\ source \in Sources
    /\ chars = 1
    /\ cur_line = 1
    /\ tokens = <<>>
    /\ scanned = NoResult

SpecScan == InitScan /\ [][NextScan]_vars

\* ------------------------------------------------------------------ parser
\* parser.rs.  The parser reads `tokens` through a Peekable iterator: ps.p is
\* the index of the token next() yields, ps.rep the diagnostics the parser
\* has reported through lox.report.  Every function takes the parser state
\* and gives back one of
\*    [st |-> "ok", x |-> what it returned, ps |-> the state after it]
\*    [st |-> "err", err |-> message, ps |-> ...]     (Result::Err)
\*    [st |-> "panic", ps |-> ...]                    (panic!, todo!, unwrap)
\* `The({e : x \in {call}})` is `let x = call; e`: the call is made once.

Good(x, ps) == [st |-> "ok", x |-> x, ps |-> ps]
Bad(err, ps) == [st |-> "err", err |-> err, ps |-> ps]
Panic(ps) == [st |-> "panic", ps |-> ps]
The(S) == CHOOSE x \in S : TRUE

\* self.tokens.peek().is_some()
HasNext(ps) == ps.p <= Len(tokens)
\* self.tokens.next(): past the end it yields None and stays there
Advance(ps) == IF HasNext(ps) THEN [ps EXCEPT !.p = @ + 1] ELSE ps
\* peek() is a token of one of these types
PeekIn(ps, types) == HasNext(ps) /\ tokens[ps.p].tt \in types
\* self.lox.report(line, "", msg)
Reported(ps, ln, msg) == [ps EXCEPT !.rep = Append(@, [line |-> ln, message |-> msg])]

\* parser.rs:103-110
token_match(ps, types) ==
    IF PeekIn(ps, types)
    THEN [some |-> TRUE, t |-> tokens[ps.p], ps |-> Advance(ps)]
    ELSE [some |-> FALSE, ps |-> ps]

\* parser.rs:112-117: the closure unwraps peek() for the line
consume(ps, tt, msg) ==
    LET m == token_match(ps, {tt})
    IN IF m.some THEN Good(m.t, m.ps)
       ELSE IF ~HasNext(ps) THEN Panic(ps)
       ELSE Bad(msg, Reported(ps, tokens[ps.p].line, msg))

\* parser.rs:118-127
consume_identifier(ps, msg) ==
    IF ~HasNext(ps) THEN Panic(ps)
    ELSE IF tokens[ps.p].tt = "IDENTIFIER" THEN Good(tokens[ps.p].name, Advance(ps))
    ELSE Bad("", Reported(ps, tokens[ps.p].line, msg))

\* parser.rs:506-525: on `;` one more token is taken; a keyword that starts
\* a statement has been taken by the time the loop returns.
RECURSIVE synchronize(_)
synchronize(ps) ==
    IF ~HasNext(ps) THEN ps
    ELSE IF tokens[ps.p].tt = "SEMICOLON" THEN Advance(Advance(ps))
    ELSE IF tokens[ps.p].tt \in
               {"CLASS", "FUN", "VAR", "FOR", "IF", "WHILE", "PRINT", "RETURN"}
    THEN Advance(ps)
    ELSE synchronize(Advance(ps))

RECURSIVE expression(_), assignment(_), LogicalTail(_, _), BinaryTail(_, _),
          or_expr(_), and_expr(_), equality(_), comparison(_), term(_), factor(_),
          unary(_), call(_), CallTail(_), finish_call(_, _), Arguments(_, _, _),
          primary(_)

\* parser.rs:353-355
expression(ps) == assignment(ps)

\* A parser that keeps the left-hand side when it is no variable.
assignment_Lenient(ps) ==
    The({LET m == token_match(expr.ps, {"EQUAL"})
         IN IF expr.st # "ok" \/ ~m.some THEN expr
            ELSE The({IF value.st # "ok" THEN value
                      ELSE IF expr.x.e = "Variable"
                      THEN Good(Assign(expr.x.n, value.x), value.ps)
                      ELSE Good(expr.x, value.ps) :
                        value \in {assignment(m.ps)}}) :
           expr \in {or_expr(ps)}})
\* parser.rs:377-392
assignment(ps) ==
    The({LET m == token_match(expr.ps, {"EQUAL"})
         IN IF expr.st # "ok" \/ ~m.some THEN expr
            ELSE The({IF value.st # "ok" THEN value
                      ELSE IF expr.x.e = "Variable"
                      THEN Good(Assign(expr.x.n, value.x), value.ps)
                      ELSE Panic(value.ps) :
                        value \in {assignment(m.ps)}}) :
           expr \in {or_expr(ps)}})

\* The loops of or_expr (tt = "OR", right operand and_expr) and of and_expr
\* (tt = "AND", right operand equality): parser.rs:360-363 and 370-373.
LogicalTail(expr, tt) ==
    LET m == token_match(expr.ps, {tt})
    IN IF expr.st # "ok" \/ ~m.some THEN expr
       ELSE The({IF right.st # "ok" THEN right
                 ELSE LogicalTail(Good(Logical(expr.x, m.t, right.x), right.ps), tt) :
                   right \in {IF tt = "OR" THEN and_expr(m.ps) ELSE equality(m.ps)}})

\* parser.rs:357-365
or_expr(ps) == The({LogicalTail(expr, "OR") : expr \in {and_expr(ps)}})
\* parser.rs:367-375
and_expr(ps) == The({LogicalTail(expr, "AND") : expr \in {equality(ps)}})

\* The loops of equality, comparison, term and factor: each of the four
\* parses its right operand with self.comparison() (parser.rs:399, 413,
\* 422, 431).
BinaryTail(expr, types) ==
    LET m == token_match(expr.ps, types)
    IN IF expr.st # "ok" \/ ~m.some THEN expr
       ELSE The({IF right.st # "ok" THEN right
                 ELSE BinaryTail(Good(Binary(expr.x, m.t, right.x), right.ps), types) :
                   right \in {comparison(m.ps)}})

\* parser.rs:394-403
equality(ps) ==
    The({BinaryTail(expr, {"BANG_EQUAL", "EQUAL_EQUAL"}) : expr \in {comparison(ps)}})
\* parser.rs:405-417
comparison(ps) ==
    The({BinaryTail(expr, {"GREATER", "GREATER_EQUAL", "LESS", "LESS_EQUAL"}) :
           expr \in {term(ps)}})
\* parser.rs:419-426
term(ps) == The({BinaryTail(expr, {"PLUS", "MINUS"}) : expr \in {factor(ps)}})
\* parser.rs:428-435
factor(ps) == The({BinaryTail(expr, {"STAR", "SLASH"}) : expr \in {unary(ps)}})

\* parser.rs:437-444
unary(ps) ==
    LET m == token_match(ps, {"BANG", "MINUS"})
    IN IF ~m.some THEN call(ps)
       ELSE The({IF right.st # "ok" THEN right
                 ELSE Good(Unary(m.t, right.x), right.ps) :
                   right \in {unary(m.ps)}})

\* parser.rs:448-450
CallTail(expr) ==
    LET m == token_match(expr.ps, {"LEFT_PAREN"})
    IN IF expr.st # "ok" \/ ~m.some THEN expr
       ELSE The({CallTail(called) : called \in {finish_call(m.ps, expr.x)}})
\* parser.rs:446-452
call(ps) == The({CallTail(expr) : expr \in {primary(ps)}})

\* parser.rs:458-467: the argument loop; a missing `)` is todo!()
Arguments(ps, callee, args) ==
    The({LET comma == token_match(arg.ps, {"COMMA"})
             close == token_match(arg.ps, {"RIGHT_PAREN"})
         IN IF arg.st # "ok" THEN arg
            ELSE IF comma.some THEN Arguments(comma.ps, callee, Append(args, arg.x))
            ELSE IF close.some THEN Good(Call(callee, Append(args, arg.x)), close.ps)
            ELSE Panic(arg.ps) :
           arg \in {expression(ps)}})
\* parser.rs:453-471
finish_call(ps, callee) ==
    LET close == token_match(ps, {"RIGHT_PAREN"})
    IN IF close.some THEN Good(Call(callee, <<>>), close.ps)
       ELSE Arguments(ps, callee, <<>>)

\* parser.rs:473-504: past the end next() is None and the token is an EOF of
\* line -1; a token that starts no expression is skipped by synchronize, with
\* no report, and an expression is parsed from where that stopped.
primary(ps) ==
    LET cur_token == IF HasNext(ps) THEN tokens[ps.p] ELSE Tok("EOF", -1)
        after == Advance(ps)
    IN CASE cur_token.tt \in {"EOF", "FALSE", "TRUE", "NIL", "STRING", "NUMBER"} ->
                Good(Literal(cur_token), after)
         [] cur_token.tt = "LEFT_PAREN" ->
                The({LET close == token_match(expr.ps, {"RIGHT_PAREN"})
                     IN IF expr.st # "ok" THEN expr
                        ELSE IF close.some THEN Good(Grouping(expr.x), close.ps)
                        ELSE Panic(Reported(expr.ps, cur_token.line, "")) :
                       expr \in {expression(after)}})
         [] cur_token.tt = "IDENTIFIER" -> Good(Variable(cur_token), after)
         [] OTHER -> expression(synchronize(after))

RECURSIVE declaration(_), statement(_), block(_), BlockTail(_, _),
          fun_declaration(_), for_statement(_), while_statement(_), if_statement(_)

\* An Option made of a parse result: Some(x) of an Ok, the failure otherwise.
SomeOf(res) == IF res.st = "ok" THEN Good(<<res.x>>, res.ps) ELSE res

\* parser.rs:175-196: a missing `;` is not reported; no name is todo!()
var_declaration(ps) ==
    LET var == token_match(ps, {"VAR"}).ps
        eq == token_match(Advance(var), {"EQUAL"})
    IN IF ~HasNext(var) \/ tokens[var.p].tt # "IDENTIFIER" THEN Panic(var)
       ELSE IF ~eq.some
       THEN Good(SVar(tokens[var.p].name, <<>>), token_match(eq.ps, {"SEMICOLON"}).ps)
       ELSE The({IF init.st # "ok" THEN init
                 ELSE Good(SVar(tokens[var.p].name, <<init.x>>),
                           token_match(init.ps, {"SEMICOLON"}).ps) :
                   init \in {expression(eq.ps)}})

\* parser.rs:329-337: a missing `;` is not reported
expression_statement(ps) ==
    The({IF expr.st # "ok" THEN expr
         ELSE Good(SExpr(expr.x), token_match(expr.ps, {"SEMICOLON"}).ps) :
           expr \in {expression(ps)}})

\* parser.rs:339-351: a missing `;` is not reported
print_statement(ps) ==
    The({IF value.st # "ok" THEN value
         ELSE Good(SPrint(value.x), token_match(value.ps, {"SEMICOLON"}).ps) :
           value \in {expression(token_match(ps, {"PRINT"}).ps)}})

\* parser.rs:129-136
declaration(ps) ==
    IF ~HasNext(ps) THEN Panic(ps)
    ELSE CASE tokens[ps.p].tt = "VAR" -> var_declaration(ps)
           [] tokens[ps.p].tt = "FUN" -> fun_declaration(ps)
           [] OTHER -> statement(ps)

\* parser.rs:198-208
statement(ps) ==
    IF ~HasNext(ps) THEN Panic(ps)
    ELSE CASE tokens[ps.p].tt = "PRINT" -> print_statement(ps)
           [] tokens[ps.p].tt = "WHILE" -> while_statement(ps)
           [] tokens[ps.p].tt = "FOR" -> for_statement(ps)
           [] tokens[ps.p].tt = "IF" -> if_statement(ps)
           [] tokens[ps.p].tt = "LEFT_BRACE" -> block(ps)
           [] OTHER -> expression_statement(ps)

\* parser.rs:317-323: the loop unwraps peek()
BlockTail(ps, statements) ==
    IF ~HasNext(ps) THEN Panic(ps)
    ELSE IF tokens[ps.p].tt = "RIGHT_BRACE" THEN Good(SBlock(statements), Advance(ps))
    ELSE The({IF decl.st # "ok" THEN decl
              ELSE BlockTail(decl.ps, Append(statements, decl.x)) :
                decl \in {declaration(ps)}})
\* parser.rs:314-327
block(ps) == BlockTail(Advance(ps), <<>>)

\* parser.rs:146-161: take_while takes the tokens up to and including the
\* first `)` (all of them when there is none); with a COMMA chained on they
\* are read in pairs (name, comma), a last odd one being dropped.
Parameters(ps) ==
    LET close == CHOOSE j \in ps.p..(Len(tokens) + 1) :
                    /\ j <= Len(tokens) => tokens[j].tt = "RIGHT_PAREN"
                    /\ \A k \in ps.p..(j - 1) : tokens[k].tt # "RIGHT_PAREN"
        chained == Append(SubSeq(tokens, ps.p, close - 1), Tok("COMMA", 0))
        pairs == 1..(Len(chained) \div 2)
        after == [ps EXCEPT !.p = IF close <= Len(tokens) THEN close + 1 ELSE close]
    IN IF \A k \in pairs : /\ chained[2 * k - 1].tt = "IDENTIFIER"
                           /\ chained[2 * k].tt = "COMMA"
       THEN Good([k \in pairs |-> chained[2 * k - 1]], after)
       ELSE Bad("Expected identifier, comma pairs", after)

\* parser.rs:138-173: the result of consume(LEFT_PAREN) is dropped, its
\* report is not; a body that is no block is todo!()
fun_declaration(ps) ==
    LET name == consume_identifier(Advance(ps), "Expect function name.")
        paren == consume(name.ps, "LEFT_PAREN", "Expect '(' after function name")
        parameters == Parameters(paren.ps)
    IN IF name.st # "ok" THEN name
       ELSE IF paren.st = "panic" THEN paren
       ELSE IF parameters.st # "ok" THEN parameters
       ELSE IF ~PeekIn(parameters.ps, {"LEFT_BRACE"}) THEN Panic(parameters.ps)
       ELSE The({IF body.st # "ok" THEN body
                 ELSE Good(SFunction(name.x, parameters.x, body.x), body.ps) :
                   body \in {block(parameters.ps)}})

\* parser.rs:266-280
while_statement(ps) ==
    LET open == token_match(Advance(ps), {"LEFT_PAREN"})
    IN IF ~open.some THEN Bad("expected lparen", open.ps)
       ELSE The({LET close == token_match(condition.ps, {"RIGHT_PAREN"})
                 IN IF condition.st # "ok" THEN condition
                    ELSE IF ~close.some THEN Bad("expected rparen", close.ps)
                    ELSE The({IF body.st # "ok" THEN body
                              ELSE Good(SWhile(condition.x, body.x), body.ps) :
                                body \in {statement(close.ps)}}) :
                   condition \in {expression(open.ps)}})

\* parser.rs:297-309: the branches of an if whose condition has been parsed
Branches(condition, ps) ==
    The({IF then_branch.st # "ok" THEN then_branch
         ELSE IF ~PeekIn(then_branch.ps, {"ELSE"})
         THEN Good(SIf(condition, then_branch.x, <<>>), then_branch.ps)
         ELSE The({IF else_branch.st # "ok" THEN else_branch
                   ELSE Good(SIf(condition, then_branch.x, <<else_branch.x>>),
                             else_branch.ps) :
                     else_branch \in {statement(Advance(then_branch.ps))}}) :
           then_branch \in {statement(ps)}})

\* parser.rs:282-312: no `(` is todo!()
if_statement(ps) ==
    IF ~PeekIn(Advance(ps), {"LEFT_PAREN"}) THEN Panic(Advance(ps))
    ELSE The({IF condition.st # "ok" THEN condition
              ELSE IF ~HasNext(condition.ps) THEN Panic(condition.ps)
              ELSE IF ~PeekIn(condition.ps, {"RIGHT_PAREN"})
              THEN Bad("expected right paren", condition.ps)
              ELSE Branches(condition.x, Advance(condition.ps)) :
                condition \in {expression(Advance(Advance(ps)))}})

\* parser.rs:250-261: the increment goes after the body, a condition makes
\* the While, an initializer goes in front.
Desugar(initializer, condition, increment, body) ==
    LET stepped == IF increment = <<>> THEN body
                   ELSE SBlock(<<body, SExpr(increment[1])>>)
        looped == IF condition = <<>> THEN stepped ELSE SWhile(condition[1], stepped)
    IN IF initializer = <<>> THEN looped ELSE SBlock(<<initializer[1], looped>>)

\* parser.rs:216-224: the initializer clause
ForInitializer(ps) ==
    IF PeekIn(ps, {"SEMICOLON"}) THEN Good(<<>>, Advance(ps))
    ELSE IF PeekIn(ps, {"VAR"}) THEN The({SomeOf(stmt) : stmt \in {var_declaration(ps)}})
    ELSE The({SomeOf(stmt) : stmt \in {expression_statement(ps)}})
\* parser.rs:228-232 and 240-244: a clause that is absent before `ends`
ForClause(ps, ends) ==
    IF PeekIn(ps, {ends}) THEN Good(<<>>, ps)
    ELSE The({SomeOf(expr) : expr \in {expression(ps)}})

\* parser.rs:226-263: for_statement from the condition on
ForRest(initializer, ps) ==
    IF ~HasNext(ps) THEN Panic(ps)
    ELSE The({LET semi == token_match(condition.ps, {"SEMICOLON"})
              IN IF condition.st # "ok" THEN condition
                 ELSE IF ~semi.some THEN Bad("Expect ';' after loop condition.", semi.ps)
                 ELSE IF ~HasNext(semi.ps) THEN Panic(semi.ps)
                 ELSE The({LET close == token_match(increment.ps, {"RIGHT_PAREN"})
                           IN IF increment.st # "ok" THEN increment
                              ELSE IF ~close.some
                              THEN Bad("Expect ')' after for clauses.", close.ps)
                              ELSE The({IF body.st # "ok" THEN body
                                        ELSE Good(Desugar(initializer, condition.x,
                                                          increment.x, body.x), body.ps) :
                                          body \in {statement(close.ps)}}) :
                             increment \in {ForClause(semi.ps, "RIGHT_PAREN")}}) :
                condition \in {ForClause(ps, "SEMICOLON")}})

\* parser.rs:210-264
for_statement(ps) ==
    LET open == token_match(Advance(ps), {"LEFT_PAREN"})
    IN IF ~open.some THEN Bad("expected lparen", open.ps)
       ELSE IF ~HasNext(open.ps) THEN Panic(open.ps)
       ELSE The({IF initializer.st # "ok" THEN initializer
                 ELSE ForRest(initializer.x, initializer.ps) :
                   initializer \in {ForInitializer(open.ps)}})

\* parser.rs:86-101: the loop of parse; past the end peek() counts as EOF
RECURSIVE ParseTail(_, _)
ParseTail(ps, statements) ==
    IF ~HasNext(ps) \/ tokens[ps.p].tt = "EOF" THEN Good(statements, ps)
    ELSE The({IF decl.st # "ok" THEN decl
              ELSE ParseTail(decl.ps, Append(statements, decl.x)) :
                decl \in {declaration(ps)}})
\* parser.rs:82-101: Parser::new and parse
parse == ParseTail([p |-> 1, rep |-> <<>>], <<>>)

\* --------------------------------------------------------------- SpecParse
\* Parser::parse applied to a token sequence.

\* lox.rs:59: Parser::new(tokens, lox) then parse(); the reports go to lox.
Parse ==
    /\ status = "parsing"
    /\ \E ast \in {parse} :
          /\ parsed' = ast
          /\ diags' = diags \o ast.ps.rep
          /\ has_error' = (has_error \/ ast.ps.rep # <<>>)
          /\ status' = IF ast.st = "panic" THEN "panicked" ELSE "parsed"
    /\ UNCHANGED <<values, envVars, interpVars, scanVars, ran, lines, opVars>>

\* The token the scanner makes of a word, on line 1.
WordToken(w) ==
    CASE w \in DOMAIN keywords -> Tok(keywords[w], 1)
      [] w \in DOMAIN SingleTokens -> Tok(SingleTokens[w], 1)
      [] w \in DOMAIN PairTokens -> Tok(PairTokens[w][1], 1)
      [] w \in {"!=", "==", "<=", ">="} -> Tok(PairTokens[SubSeq(w, 1, 1)][2], 1)
      [] w = "/" -> Tok("SLASH", 1)
      [] w \in Digits -> NumberTok(CHOOSE n \in 0..9 : ToString(n) = w, 1)
      [] OTHER -> IdentTok(w, 1)
\* The tokens of a text given word by word, EOF at the end.
Words(ws) == [i \in 1..Len(ws) |-> WordToken(ws[i])] \o <<Tok("EOF", 1)>>

\* print 1 op 2 op 3 ... ;  for a sequence of binary operator types
ChainTokens(ops) ==
    <<Tok("PRINT", 1)>>
        \o [i \in 1..(2 * Len(ops) + 1) |->
               IF i % 2 = 1 THEN NumberTok((i + 1) \div 2, 1) ELSE Tok(ops[i \div 2], 1)]
        \o <<Tok("SEMICOLON", 1), Tok("EOF", 1)>>
Chains == UNION {[1..n -> BinaryOps] : n \in 0..MaxChain}

\* for ( <initializer> ; <condition> ; <increment> ) print i ;
ForShapes == [init : {"none", "var", "expr"}, cond : BOOLEAN, incr : BOOLEAN]
ForTokens(shape) ==
    Words(<<"for", "(">>
            \o (CASE shape.init = "var" -> <<"var", "i", "=", "0", ";">>
                  [] shape.init = "expr" -> <<"i", "=", "0", ";">>
                  [] OTHER -> <<";">>)
            \o (IF shape.cond THEN <<"i", "<", "2">> ELSE <<>>)
            \o <<";">>
            \o (IF shape.incr THEN <<"i", "=", "i", "+", "1">> ELSE <<>>)
            \o <<")", "print", "i", ";">>)

\* Texts with a syntax error: a token that starts no expression where an
\* expression is due, a missing `;`, a missing `)`.
NoExpressionInputs ==
    {Words(<<"print", ")", ";">>), Words(<<"print", "1", "+", "*", "2", ";">>),
     Words(<<"var", "a", "=", "}", ";">>), Words(<<"print", "else", "1", ";">>),
     Words(<<"a", "=", ",", "print", "1", ";">>)}
NoSemicolonInputs ==
    {Words(<<"print", "1">>), Words(<<"var", "a", "=", "1">>), Words(<<"a", "=", "1">>),
     Words(<<"print", "1", "print", "2", ";">>)}
NoParenInputs ==
    {Words(<<"print", "(", "1", ";">>), Words(<<"f", "(", "1", ";">>),
     Words(<<"if", "(", "a", "print", "1", ";">>),
     Words(<<"while", "(", "a", "print", "1", ";">>),
     Words(<<"for", "(", ";", ";", "print", "1", ";">>)}
SyntaxErrorInputs == NoExpressionInputs \cup NoSemicolonInputs \cup NoParenInputs

\* Texts without a syntax error that use every statement and expression form.
WellFormedInputs ==
    {Words(<<"fun", "f", "(", "a", ",", "b", ")", "{", "if", "(", "a", ")", "print",
             "b", ";", "else", "{", "f", "(", "1", ",", "2", ")", ";", "}", "}",
             "while", "(", "!", "true", ")", "x", "=", "y", "or", "z", "and", "-",
             "1", ";">>),
     Words(<<"var", "a", ";", "fun", "g", "(", ")", "{", "}", "g", "(", ")", "(",
             "nil", ")", ";", "print", "(", "a", ")", ";">>),
     Words(<<>>)}

\* Texts with something other than a variable to the left of `=`.
BadTargetInputs ==
    {Words(<<"1", "=", "2", ";">>), Words(<<"a", "+", "b", "=", "1", ";">>),
     Words(<<"(", "a", ")", "=", "1", ";">>), Words(<<"f", "(", ")", "=", "1", ";">>),
     Words(<<"a", "=", "1", "=", "2", ";">>), Words(<<"print", "!", "a", "=", "1", ";">>),
     Words(<<"var", "x", "=", "nil", "=", "1", ";">>)}
\* Texts that end too early: a block without `}`, an if without `(`, a
\* function without a body.
CutShortInputs ==
    {Words(<<"{", "print", "1", ";">>), Words(<<"if", "a", "print", "1", ";">>),
     Words(<<"fun", "f", "(", ")", "print", "1", ";">>)}
\* Token sequences without the EOF token at the end.
WithoutEof(ts) == SubSeq(ts, 1, Len(ts) - 1)
NoEofInputs ==
    {WithoutEof(Words(<<>>)), WithoutEof(Words(<<"print", "1", ";">>)),
     WithoutEof(Words(<<"a", "=", "1">>))}

ParseInputs ==
    {ChainTokens(ops) : ops \in Chains} \cup {ForTokens(shape) : shape \in ForShapes}
        \cup SyntaxErrorInputs \cup WellFormedInputs
        \cup BadTargetInputs \cup CutShortInputs \cup NoEofInputs

InitParse ==
    /\ values = EnvNew
    /\ status = "parsing"
    /\ envOp = [op |-> "new"]
    /\ envPrev = EnvNew
    /\ prog = <<>>
    /\ pc = 1
    /\ ctl = Idle
    /\ kont = <<>>
    /\ output = <<>>
    /\ result = NoResult
    /\ failure = NoFailure
    /\ LoxIdle /\ OpsIdle
    /\ source = <<>>
    /\ chars = 1
    /\ cur_line = 1
    /\ tokens \in ParseInputs
    /\ scanned = NoResult

SpecParse == InitParse /\ [][Parse]_vars

\* ---------------------------------------------------------------- SpecSync
\* Parser::synchronize on its own: called with the token at opIn.p next, on
\* every token sequence of at most MaxTokens tokens before the EOF.
SyncWords == {";", "1", ")", "print", "var"}
SyncInputs == {Words(ws) : ws \in UNION {[1..n -> SyncWords] : n \in 0..MaxTokens}}

InitSync ==
    /\ EnvFresh /\ LoxIdle
    /\ source = <<>>
    /\ chars = 1
    /\ cur_line = 1
    /\ tokens \in SyncInputs
    /\ scanned = NoResult
    /\ opIn \in [op : {"synchronize"}, p : 1..(MaxTokens + 2)]
    /\ opIn.p <= Len(tokens) + 1
    /\ opOut = NoResult

\* parser.rs:506-525
ApplySynchronize ==
    /\ opOut = NoResult /\ opIn.op = "synchronize"
    /\ opOut' = [pending |-> FALSE, ps |-> synchronize([p |-> opIn.p, rep |-> <<>>])]
    /\ UNCHANGED <<values, status, envVars, interpVars, scanVars, loxVars, opIn>>

SpecSync == InitSync /\ [][ApplySynchronize]_vars

\* --------------------------------------------------------------------- Lox
\* lox.rs:48-77, Lox::run_with_env: scan, parse, interpret.  `status` is the
\* place the call has reached: "scanning", "parsing", "parsed", "running",
\* "done" (interpret returned), "returned" (`ran` holds what the call returns)
\* or "panicked".

\* lox.rs:17-20 and the plain anyhow errors that carry no context.
LoxScanError == [kind |-> "LoxScanError", message |-> "failed to scan"]
LoxParseError == [kind |-> "LoxParseError", message |-> "failed to scan"]
Plain(message) == [kind |-> "anyhow", message |-> message]
\* err.downcast_ref::<K>().is_some()
downcast_ref(err, K) == err.kind = K

\* A Lox whose flag is never looked at.
check_err_Unflagged == [ok |-> TRUE]
\* lox.rs:37-42
check_err == IF has_error THEN Err(Plain("Failure")) ELSE [ok |-> TRUE]

Returns(res) ==
    /\ ran' = [pending |-> FALSE] @@ res
    /\ status' = "returned"

\* lox.rs:49-57: after scan_tokens, the flag first, then `tokens?`.
RunScanned ==
    /\ status = "scanning" /\ scanned # NoResult
    /\ IF ~check_err.ok THEN Returns(Err(LoxScanError))
       ELSE IF ~scanned.ok THEN Returns(Err(Plain(scanned.err)))
       ELSE /\ status' = "parsing"
            /\ UNCHANGED ran
    /\ UNCHANGED <<values, envVars, interpVars, scanVars, diags, has_error, parsed, lines, opVars>>

\* lox.rs:59-66: `parser.parse()?`, the flag, then Interpreter::new_with_env
\* (interpreter.rs:131-139) on the caller's environment.
RunParsed ==
    /\ status = "parsed"
    /\ IF parsed.st = "err"
       THEN /\ Returns(Err(Plain(parsed.err)))
            /\ UNCHANGED <<values, prog>>
       ELSE IF ~check_err.ok
       THEN /\ Returns(Err(LoxParseError))
            /\ UNCHANGED <<values, prog>>
       ELSE /\ prog' = parsed.x
            /\ values' = define(values, "clock", LoxBuiltinClock)
            /\ status' = "running"
            /\ UNCHANGED ran
    /\ UNCHANGED <<envOp, envPrev, pc, ctl, kont, output, result, failure>>
    /\ UNCHANGED <<scanVars, diags, has_error, parsed, lines, opVars>>

\* lox.rs:67-77: the interpreter's Err goes back as it is, else check_err.
RunInterpreted ==
    /\ status = "done" /\ ran = NoResult
    /\ Returns(IF ~result.ok THEN Err(result.err) ELSE check_err)
    /\ UNCHANGED <<values, envVars, interpVars, scanVars, diags, has_error, parsed, lines, opVars>>

\* The characters of a text.
Text(s) == [i \in 1..Len(s) |-> SubSeq(s, i, i)]

\* The sources SpecLox runs: a program that succeeds, one that fails while it
\* runs, sources the scanner reports on, and sources the parser rejects by
\* an error, by a diagnostic, and by both followed by a panic.
LoxSources ==
    {Text("print 1;"), Text("var a = \"s\";\nprint a;"), Text("print a;"),
     Text("// c\n@"), Text("print \"a"), Text("@ print 1;"),
     Text("while 1;"), Text("fun f){}"), Text("fun 1"), Text("print (1;"),
     Text("print 1"), Text("")}

\* The steps of Interpreter::interpret that the programs of LoxSources take.
NextRun ==
    \/ InterpretStep \/ InterpretCollect \/ InterpretOk
    \/ ExecPrint \/ PrintDone \/ ExecVar \/ VarDone
    \/ EvalLiteral \/ EvalVariable

\* The caller calls run_with_env again, on the same Lox and the same
\* Enviornment, with the next source (main.rs:37-44 is such a caller, one that
\* stops at the first Err; lox.rs:48 is open to any other).  A new scan, a
\* new Parser and a new Interpreter start; the Lox and the Enviornment stay.
RunAgain ==
    /\ status = "returned" /\ lines # <<>>
    /\ source' = Head(lines)
    /\ lines' = Tail(lines)
    /\ chars' = 1
    /\ cur_line' = 1
    /\ tokens' = <<>>
    /\ scanned' = NoResult
    /\ parsed' = NoResult
    /\ ran' = NoResult
    /\ prog' = <<>>
    /\ pc' = 1
    /\ ctl' = Idle
    /\ kont' = <<>>
    /\ result' = NoResult
    /\ failure' = NoFailure
    /\ status' = "scanning"
    /\ UNCHANGED <<values, output, envOp, envPrev, diags, has_error, opVars>>

InitLox ==
    /\ values = EnvNew
    /\ status = "scanning"
    /\ envOp = [op |-> "new"]
    /\ envPrev = EnvNew
    /\ prog = <<>>
    /\ pc = 1
    /\ ctl = Idle
    /\ kont = <<>>
    /\ output = <<>>
    /\ result = NoResult
    /\ failure = NoFailure
    /\ diags = <<>>
    /\ has_error = FALSE
    /\ parsed = NoResult
    /\ ran = NoResult
    /\ lines \in UNION {[1..n -> LoxSources] : n \in 0..(MaxRuns - 1)}
    /\ OpsIdle
    /\ source \in LoxSources
    /\ chars = 1
    /\ cur_line = 1
    /\ tokens = <<>>
    /\ scanned = NoResult

NextLox ==
    \/ NextScan
    \/ RunScanned
    \/ Parse
    \/ RunParsed
    \/ NextRun
    \/ RunInterpreted
    \/ RunAgain

SpecLox == InitLox /\ [][NextLox]_vars

\* ===================================================================== claims

\* The innermost pending call of a user function, 0 when there is none.
InnermostCall ==
    LET calls == {i \in 1..Len(kont) : kont[i].k = "CallBody"}
    IN IF calls = {} THEN 0 ELSE CHOOSE i \in calls : \A j \in calls : j <= i
InCall == InnermostCall > 0
\* Scope i binds name.
Binds(vs, i, name) == name \in DOMAIN vs[i]

\* C1: a variable read in a function body never resolves in a scope that only
\* the caller has: the resolving scope is one the call itself pushed (above
\* the caller's depth) or one that existed where the function was declared
\* (at most the depth of the declaration site).
C1_DeclarationSiteScoping ==
    (Evaluating("Variable") /\ InCall) =>
        LET f == kont[InnermostCall]
            name == ctl.expr.n.name
        IN \A i \in 1..Len(values) :
              (Binds(values, i, name) /\ \A j \in (i + 1)..Len(values) : ~Binds(values, j, name))
                  => (i > f.caller \/ i <= Len(f.closure))

\* C2: a function called after the scope it was declared in has been popped
\* still reads the variables that scope bound at the declaration: the read of
\* a name the declaration-site stack bound, and the call's own scopes do not,
\* succeeds.
C2_ClosureOutlivesScope ==
    (Evaluating("Variable") /\ InCall) =>
        LET f == kont[InnermostCall]
            name == ctl.expr.n.name
        IN ( /\ Len(f.closure) > f.caller
             /\ \E i \in 1..Len(f.closure) : Binds(f.closure, i, name)
             /\ \A j \in (f.caller + 1)..Len(values) : ~Binds(values, j, name) )
           => get(values, name).ok

\* C3: once an evaluation has failed with a runtime error, no statement is
\* executed, nothing more is printed, and interpret returns that error.
C3_ErrorHaltsInterpretation ==
    [][failure # NoFailure =>
          /\ ctl'.mode # "exec"
          /\ output' = output
          /\ (status' = "done" => (~result'.ok /\ result'.err = failure))]_vars

\* C4: when execute returns (Ok(Noop), Ok(Return) or Err) the scope depth is
\* what it was when that statement began, and in every state each scope above
\* the global one belongs to exactly one pending Block or function call.
C4_ScopeDepthRestored ==
    /\ ctl.mode = "retS" => Len(values) = ctl.d0
    /\ Len(values) = 1 + Cardinality({i \in 1..Len(kont) : kont[i].k \in {"Block", "CallBody"}})

\* A top-level block has returned an Err raised in a nested block, and only
\* the global scope is left.
C4_Witness ==
    /\ prog = ErrorInBlockProgram
    /\ ctl.mode = "retS" /\ ~ctl.res.ok
    /\ kont = <<>>
    /\ Len(values) = 1

\* C5: the scope sequence is never empty; pop_scope on the global scope alone
\* aborts (no Result is returned) and removes nothing.
C5_GlobalScopeStays ==
    /\ Len(values) >= 1
    /\ (envOp.op = "pop_scope" /\ Len(envPrev) = 1) => (status = "panicked" /\ values = envPrev)
    /\ (envOp.op = "pop_scope" /\ Len(envPrev) > 1) =>
          (status = "running" /\ Len(values) = Len(envPrev) - 1)

C5_Witness ==
    /\ envOp.op = "pop_scope" /\ status = "panicked"
    /\ values = envPrev /\ Len(values) = 1 /\ DOMAIN values[1] # {}

\* C6: assign changes the binding of name in the innermost scope binding it
\* and nothing else; when no scope binds name it fails and changes nothing.
\* In neither case does any scope gain a name.
C6_AssignFrame ==
    envOp.op = "assign" =>
        LET name == envOp.name
            n == Len(envPrev)
        IN /\ Len(values) = n
           /\ \A i \in 1..n : DOMAIN values[i] = DOMAIN envPrev[i]
           /\ (\A i \in 1..n : ~Binds(envPrev, i, name)) => (~envOp.ok /\ values = envPrev)
           /\ \A i \in 1..n :
                 (Binds(envPrev, i, name) /\ \A j \in (i + 1)..n : ~Binds(envPrev, j, name))
                     => /\ envOp.ok
                        /\ values[i][name] = envOp.value
                        /\ \A j \in 1..n : \A m \in DOMAIN envPrev[j] :
                              (j # i \/ m # name) => values[j][m] = envPrev[j][m]

\* An inner and an outer scope bound the name; assign changed the inner one.
C6_Witness ==
    /\ envOp.op = "assign" /\ envOp.ok
    /\ Len(values) >= 2
    /\ Binds(values, 1, envOp.name) /\ Binds(values, Len(values), envOp.name)
    /\ values[1][envOp.name] # envOp.value
    /\ envPrev[Len(values)][envOp.name] # envOp.value

\* C7: get returns the value of the innermost scope binding name, fails when
\* no scope binds it, and leaves the environment as it was.
C7_GetInnermost ==
    envOp.op = "get" =>
        LET name == envOp.name
            n == Len(envPrev)
        IN /\ values = envPrev
           /\ (\A i \in 1..n : ~Binds(envPrev, i, name)) =>
                 (~envOp.res.ok /\ envOp.res.err = UndefinedVariable(name))
           /\ \A i \in 1..n :
                 (Binds(envPrev, i, name) /\ \A j \in (i + 1)..n : ~Binds(envPrev, j, name))
                     => (envOp.res.ok /\ envOp.res.v = envPrev[i][name])

\* get answered with an inner binding that shadows a different outer one.
C7_Witness ==
    /\ envOp.op = "get" /\ envOp.res.ok
    /\ Len(values) >= 2
    /\ Binds(values, 1, envOp.name) /\ Binds(values, Len(values), envOp.name)
    /\ values[1][envOp.name] # envOp.res.v

\* The steps of the evaluator that call define, and the name each defines.
DefinesVar ==
    \/ (Executing("Var") /\ ctl.stmt.init = <<>>)
    \/ (At("Var") /\ ctl.mode = "retE" /\ ctl.res.ok)
DefinesFunction == Executing("Function")
BindsParams == Dispatching /\ Top.callee.t = "Callable" /\ Top.callee.f = "LoxFunction"
DefinedName ==
    IF ctl.mode = "exec" THEN ctl.stmt.name ELSE Top.name

ReturnSignal == ctl.mode = "retS" /\ ctl.res.ok /\ ctl.res.sr = "Return"

\* C9: inside a call, a Return signal is only handed outwards, one pending
\* statement at a time: no statement is executed, no expression (a loop
\* condition) is evaluated and nothing is printed until the call returns,
\* and the call's value is the value the Return carries.  A body that ends
\* with Ok(Noop) makes the call's value Nil.
C9_FirstReturnIsCallValue ==
    [][/\ (Running /\ ReturnSignal /\ InCall) =>
             /\ output' = output
             /\ kont' = Pop
             /\ IF Top.k = "CallBody"
                THEN ctl' = RetE(Ok(ctl.res.v))
                ELSE ctl'.mode = "retS" /\ ctl'.res = ctl.res
       /\ (At("CallBody") /\ ctl.mode = "retS" /\ IsNoop(ctl.res)) =>
             ctl' = RetE(Ok(Nil))]_vars

\* A Return executed in a block of an if-branch of a while loop of a function
\* body is about to leave the loop, carrying 1.
C9_Witness ==
    /\ ReturnSignal /\ InCall
    /\ Top.k = "While"
    /\ ctl.res.v = Double(1)

\* C10: the evaluator never aborts on a call whose callee is not a Callable.
C10_NotCallableIsRuntimeError ==
    status = "panicked" =>
        ~(kont # <<>> /\ Top.k = "CallArgs" /\ Top.callee.t # "Callable")

\* C11: a call of a user function with a number of arguments other than its
\* number of parameters yields a runtime error; the body is not executed.
C11_ArityMismatchIsError ==
    [][(/\ Dispatching
        /\ Top.callee.t = "Callable" /\ Top.callee.f = "LoxFunction"
        /\ Len(Top.vals) # Len(Top.callee.params))
          => (ctl'.mode = "retE" /\ ~ctl'.res.ok)]_vars

\* C19: when the left operand of a logical operator has a value, the step
\* that follows leaves environment and output alone and either hands that
\* very value back (`or` with a truthy left, `and` with a falsy left), the
\* right operand being dropped with the frame, or evaluates the right
\* operand in the place of the whole expression.
C19_LogicalShortCircuit ==
    [][(At("Logical") /\ ctl.mode = "retE" /\ ctl.res.ok) =>
          LET left == ctl.res.v
              falsy == left = Nil \/ left = Boolean(FALSE)
              isOr == Top.o.tt = "OR"
          IN /\ kont' = Pop
             /\ values' = values
             /\ output' = output
             /\ IF (isOr /\ ~falsy) \/ (~isOr /\ falsy)
                THEN ctl' = RetE(Ok(left))
                ELSE ctl' = Eval(Top.r)]_vars

\* `0 or (a = 2)` and `nil and (a = 3)` printed their left operands, `nil or
\* (a = 4)` printed 4, and a is 4: the two dropped assignments never ran.
C19_Witness ==
    /\ prog = LogicalProgram
    /\ output = <<"0", "nil", "4">>
    /\ get(values, "a") = Ok(Double(4))

\* `==` or `!=` has been applied to two values.
EqualityApplied ==
    opIn.op \in {"EQUAL_EQUAL", "BANG_EQUAL"} /\ opOut # NoResult
\* Same kind among Nil, Boolean, Number, String, and equal payload.
SamePayload(l, r) ==
    l.t = r.t /\ l.t \in {"Nil", "Boolean", "Double", "String"} /\ l = r
NaN == Frac(0, 0)

\* C20: `==` and `!=` never fail; `==` is true exactly for two values of one
\* kind among Nil, Boolean, Number, String with equal payload, false across
\* kinds and whenever a Callable is involved; `!=` is its negation.
C20_EqualityStructural ==
    EqualityApplied =>
        LET eq == SamePayload(opIn.left, opIn.right)
        IN opOut = Ok(Boolean(IF opIn.op = "EQUAL_EQUAL" THEN eq ELSE ~eq))

\* C20, amended: the same, except that the Number NaN equals no value,
\* itself included.
C20_EqualityExceptNaN ==
    EqualityApplied =>
        LET eq == SamePayload(opIn.left, opIn.right) /\ opIn.left # NaN
        IN opOut = Ok(Boolean(IF opIn.op = "EQUAL_EQUAL" THEN eq ELSE ~eq))

\* A declared function compared with itself is not equal to itself.
C20_Witness ==
    /\ EqualityApplied /\ opIn.op = "EQUAL_EQUAL"
    /\ opIn.left.t = "Callable" /\ opIn.left.f = "LoxFunction"
    /\ opIn.right = opIn.left
    /\ opOut = Ok(Boolean(FALSE))

\* The lexical context each character of the source is read in: "code",
\* "string" (after an opening quote, up to and including the closing one) or
\* "comment" (after the first slash of `//`, up to but not including the
\* newline).  ContextAt(Len(source) + 1) is the context the text ends in.
RECURSIVE ContextAt(_)
ContextAt(i) ==
    IF i = 1 THEN "code"
    ELSE LET before == ContextAt(i - 1)
             prev == source[i - 1]
             here == IF i <= Len(source) THEN source[i] ELSE ""
         IN CASE before = "code" ->
                    (IF prev = "\"" THEN "string"
                     ELSE IF prev = "/" /\ here = "/" THEN "comment"
                     ELSE "code")
              [] before = "string" -> (IF prev = "\"" THEN "code" ELSE "string")
              [] OTHER -> (IF here = "\n" THEN "code" ELSE "comment")
UnterminatedString == ContextAt(Len(source) + 1) = "string"
\* The characters that start no token and are no white space.
StartsNoToken(c) == c \in {"@", "#", "$", "[", "]", "^", "~", "?", "%", "&", "|", ":"}
Strays == {i \in 1..Len(source) : ContextAt(i) = "code" /\ StartsNoToken(source[i])}
IsPrefix(a, b) == Len(a) <= Len(b) /\ SubSeq(b, 1, Len(a)) = a

\* C17: a source without an unterminated string scans successfully, the
\* token sequence ends with its only EOF and there is one diagnostic per
\* character that starts no token; the step at such a character reports one
\* diagnostic, adds no token and goes on to the next character, and tokens
\* already emitted stay in place.
C17_ScanSucceedsPastStrays ==
    /\ []((scanned # NoResult /\ ~UnterminatedString) =>
             /\ scanned.ok
             /\ scanned.tokens # <<>>
             /\ \A i \in 1..Len(scanned.tokens) :
                   scanned.tokens[i].tt = "EOF" <=> i = Len(scanned.tokens)
             /\ Len(diags) = Cardinality(Strays))
    /\ [][/\ (Scanning /\ StartsNoToken(source[chars])) =>
               /\ Len(diags') = Len(diags) + 1
               /\ tokens' = tokens
               /\ chars' = chars + 1
               /\ scanned' = NoResult
          /\ (scanned = NoResult /\ ~UnterminatedString) => IsPrefix(tokens, tokens')]_vars

\* Two stray characters were reported and the two tokens around them are in
\* the result, before EOF.
C17_Witness ==
    /\ scanned # NoResult /\ scanned.ok
    /\ Len(diags) = 2
    /\ ContextAt(2) = "code" /\ StartsNoToken(source[2])
    /\ Len(scanned.tokens) = 3

\* C18: a source that ends inside a string literal makes scan_tokens fail
\* with no token list, the last diagnostic being the only one for the
\* string.
C18_UnterminatedStringFails ==
    (scanned # NoResult /\ UnterminatedString) =>
        /\ ~scanned.ok
        /\ "tokens" \notin DOMAIN scanned
        /\ tokens = <<>>
        /\ has_error
        /\ Len(diags) = Cardinality(Strays) + 1
        /\ \A i \in 1..Len(diags) :
              diags[i].message = "Unterminated string." <=> i = Len(diags)

\* A string opened after a token and a stray character was never closed.
C18_Witness ==
    /\ scanned # NoResult /\ ~scanned.ok
    /\ Len(source) = MaxSource /\ source[1] = ";" /\ source[3] = "\""
    /\ Len(diags) = 2

\* ----- parser claims (SpecParse)

\* The grammar's precedence level of a binary operator (higher binds tighter).
Level(tt) ==
    CASE tt \in {"STAR", "SLASH"} -> 4
      [] tt \in {"PLUS", "MINUS"} -> 3
      [] tt \in {"GREATER", "GREATER_EQUAL", "LESS", "LESS_EQUAL"} -> 2
      [] OTHER -> 1
\* The tree the grammar gives to operands lo..hi of the chain 1 ops[1] 2 ops[2] ...:
\* split at the last operator of the lowest level.
RECURSIVE GrammarTree(_, _, _)
GrammarTree(ops, lo, hi) ==
    IF lo = hi THEN Num(lo, 1)
    ELSE LET low == CHOOSE k \in lo..(hi - 1) :
                        /\ \A j \in lo..(hi - 1) : Level(ops[k]) <= Level(ops[j])
                        /\ \A j \in (k + 1)..(hi - 1) : Level(ops[k]) < Level(ops[j])
         IN Binary(GrammarTree(ops, lo, low), Tok(ops[low], 1), GrammarTree(ops, low + 1, hi))
ChainParsedAs(ops, tree) ==
    (tokens = ChainTokens(ops) /\ parsed # NoResult)
        => (parsed.st = "ok" /\ parsed.x = <<SPrint(tree)>>)

\* C12: an expression without parentheses whose operators are of different
\* precedence levels is grouped by those levels: * and / bind tighter than
\* + and -, these tighter than the comparisons, these tighter than == and !=.
C12_PrecedenceGrouping ==
    \A ops \in Chains :
        (\A i, j \in DOMAIN ops : i # j => Level(ops[i]) # Level(ops[j]))
            => ChainParsedAs(ops, GrammarTree(ops, 1, Len(ops) + 1))

\* Operands 1..n joined to the left: ((1 op 2) op 3) ...
RECURSIVE LeftTree(_, _)
LeftTree(ops, n) ==
    IF n = 1 THEN Num(1, 1)
    ELSE Binary(LeftTree(ops, n - 1), Tok(ops[n - 1], 1), Num(n, 1))

\* C13: a chain of two or more operators of one precedence level parses
\* left-associatively, a op1 b op2 c as Binary(Binary(a, op1, b), op2, c).
C13_LeftAssociative ==
    \A ops \in Chains :
        (Len(ops) >= 2 /\ \A i, j \in DOMAIN ops : Level(ops[i]) = Level(ops[j]))
            => ChainParsedAs(ops, LeftTree(ops, Len(ops) + 1))

\* The parts of  for (i = 0; i < 2; i = i + 1) print i;
ForBody == SPrint(Var("i", 1))
ForCondition == Binary(Var("i", 1), Tok("LESS", 1), Num(2, 1))
ForIncrement == Assign(IdentTok("i", 1), Binary(Var("i", 1), Tok("PLUS", 1), Num(1, 1)))
ForInit(kind) ==
    IF kind = "var" THEN SVar("i", Some(Num(0, 1)))
    ELSE SExpr(Assign(IdentTok("i", 1), Num(0, 1)))
IsLoopOf(stmt, shape) ==
    /\ stmt.s = "While"
    /\ shape.cond => stmt.c = ForCondition
    /\ stmt.body = IF shape.incr THEN SBlock(<<ForBody, SExpr(ForIncrement)>>) ELSE ForBody

\* C14: every for statement, whichever of initializer, condition and increment
\* it has, parses to a While loop (in a Block after the initializer when there
\* is one) whose body is the original body followed by the increment.
C14_ForDesugarsToWhile ==
    \A shape \in ForShapes :
        (tokens = ForTokens(shape) /\ parsed # NoResult)
            => /\ parsed.st = "ok"
               /\ Len(parsed.x) = 1
               /\ IF shape.init = "none" THEN IsLoopOf(parsed.x[1], shape)
                  ELSE /\ parsed.x[1].s = "Block"
                       /\ Len(parsed.x[1].stmts) = 2
                       /\ parsed.x[1].stmts[1] = ForInit(shape.init)
                       /\ IsLoopOf(parsed.x[1].stmts[2], shape)

\* C15: every syntax error is reported: when a token that starts no expression
\* stands where one is due, or an expected ; or ) is missing, parse sets the
\* error flag with at least one diagnostic.
C15_SyntaxErrorsReported ==
    (tokens \in SyntaxErrorInputs /\ parsed # NoResult)
        => (has_error /\ diags # <<>>)

\* ----- run_with_env claims (SpecLox)

Returned == status = "returned" /\ ~ran.ok
\* The scanner reported a diagnostic on the source.
ScanReported ==
    /\ scanned # NoResult
    /\ Len(diags) > (IF parsed = NoResult THEN 0 ELSE Len(parsed.ps.rep))
\* The parser rejected the tokens, by a diagnostic or by returning an error.
ParseRejected == parsed # NoResult /\ (parsed.st = "err" \/ parsed.ps.rep # <<>>)

\* C16: every failure run_with_env returns is exactly one of LoxScanError,
\* LoxParseError, LoxRuntimeError: LoxScanError when the scanner reported,
\* LoxParseError when the parser rejected the tokens (by diagnostic or by
\* error), LoxRuntimeError when interpretation failed.
C16_FailuresClassified ==
    Returned =>
        /\ \E K \in {"LoxScanError", "LoxParseError", "LoxRuntimeError"} :
               downcast_ref(ran.err, K)
        /\ ScanReported => downcast_ref(ran.err, "LoxScanError")
        /\ ParseRejected => downcast_ref(ran.err, "LoxParseError")
        /\ (result # NoResult /\ ~result.ok) => downcast_ref(ran.err, "LoxRuntimeError")

\* ----- operator claims

Arithmetic == {"PLUS", "MINUS", "STAR", "SLASH"}
Comparisons == {"LESS", "LESS_EQUAL", "GREATER", "GREATER_EQUAL"}
\* Both operands of a Binary have their values and the operator is applied next.
OperandsReady == At("BinaryRight") /\ ctl.mode = "retE" /\ ctl.res.ok
BadBinary(err) == err.kind = "LoxRuntimeError" /\ err.message = "Bad binary expr"

\* C21: binary operators coerce nothing: + concatenates two Strings and adds
\* two Numbers; - * / < <= > >= take two Numbers only; every other combination
\* of operand kinds is a runtime error with the operator token's line, raised
\* only once the left and then the right operand have their values.
C21_NoCoercion ==
    [][/\ OperandsReady =>
             LET l == Top.left
                 r == ctl.res.v
                 tt == Top.t.tt
                 nums == l.t = "Double" /\ r.t = "Double"
             IN /\ ctl'.mode = "retE"
                /\ IF tt = "PLUS" /\ l.t = "String" /\ r.t = "String"
                   THEN ctl'.res = Ok(String(l.s \o r.s))
                   ELSE IF tt = "PLUS" /\ nums THEN ctl'.res = Ok(DAdd(l, r))
                   ELSE IF tt \in Arithmetic /\ nums
                   THEN ctl'.res.ok /\ ctl'.res.v.t = "Double"
                   ELSE IF tt \in Comparisons /\ nums
                   THEN ctl'.res.ok /\ ctl'.res.v.t = "Boolean"
                   ELSE IF tt \in Arithmetic \cup Comparisons
                   THEN /\ ~ctl'.res.ok
                        /\ ctl'.res.err.kind = "LoxRuntimeError"
                        /\ ctl'.res.err.line = Top.t.line
                   ELSE ctl'.res.ok
       /\ (failure = NoFailure /\ failure' # NoFailure /\ BadBinary(failure')) =>
             (OperandsReady /\ kont' = Pop)]_vars

\* "a" + 1 on lines 1, 2, 3 has failed with the line of the +.
C21_Witness ==
    /\ prog = BinaryProgram(Str("a", 1), "PLUS", Num(1, 3))
    /\ status = "done"
    /\ BadBinary(failure) /\ failure.line = 2
    /\ output = <<>>

Negated == opOut # NoResult /\ "left" \notin DOMAIN opIn /\ opIn.op = "BANG"

\* C22: truthiness is total with exactly two falsy values, Nil and
\* Boolean(false); every other value (0, "", a Callable) is truthy, and
\* unary ! on any value yields the negation of its truthiness, never an error.
C22_TruthinessTotal ==
    Negated => opOut = Ok(Boolean(opIn.right \in {Nil, Boolean(FALSE)}))

\* !0 is false, !"" is false and !clock is false.
C22_Witness ==
    /\ Negated
    /\ opIn.right \in {Double(0), String(""), LoxBuiltinClock}
    /\ opOut = Ok(Boolean(FALSE))

\* ----- scanner claims (SpecScan), second part

\* The scanner is at character c of a set and about to take it.
AtChar(S) == scanned = NoResult /\ chars <= Len(source) /\ source[chars] \in S
\* The step emits exactly the token t and goes on at index j.
Emits(t, j) == tokens' = Append(tokens, t) /\ chars' = j
AllIn(i, j, S) == \A k \in i..(j - 1) : source[k] \in S
\* source[i .. j-1] is digits, or digits `.` digits, with the `.` at d.
NumberShape(i, d, j) ==
    /\ i < d /\ d <= j /\ AllIn(i, d, Digits)
    /\ d # j => (source[d] = "." /\ d + 1 < j /\ AllIn(d + 1, j, Digits))
\* The integer the digits among source[i .. j-1] spell, a `.` left out.
RECURSIVE Spelled(_, _)
Spelled(i, j) ==
    IF i >= j THEN 0
    ELSE IF source[j - 1] = "." THEN Spelled(i, j - 1)
    ELSE 10 * Spelled(i, j - 1) + (CHOOSE n \in 0..9 : ToString(n) = source[j - 1])
RECURSIVE Tenfold(_, _)
Tenfold(n, k) == IF k = 0 THEN n ELSE Tenfold(10 * n, k - 1)

\* C23: a numeric literal is digits, optionally followed by `.` and digits:
\* the scanner takes the longest such text, its token is NUMBER of the value
\* the text spells, and a `.` with no digit after it stays outside (`1.` is
\* NUMBER(1) then DOT).
C23_NumberLiteral ==
    /\ [][AtChar(Digits) =>
            \E j \in (chars + 1)..(Len(source) + 1) : \E d \in (chars + 1)..j :
                /\ NumberShape(chars, d, j)
                /\ \A j2 \in (j + 1)..(Len(source) + 1) : \A d2 \in (chars + 1)..j2 :
                      ~NumberShape(chars, d2, j2)
                /\ chars' = j
                /\ Len(tokens') = Len(tokens) + 1
                /\ SubSeq(tokens', 1, Len(tokens)) = tokens
                /\ LET t == tokens'[Len(tokens')]
                   IN /\ t.tt = "NUMBER" /\ t.line = cur_line /\ t.den > 0
                      /\ Tenfold(t.num, IF d = j THEN 0 ELSE j - d - 1)
                            = t.den * Spelled(chars, j)]_vars
    /\ [](\A n \in 0..1 :
            (source = <<ToString(n), ".">> /\ scanned # NoResult)
                => tokens = <<NumberTok(n, 1), Tok("DOT", 1), Tok("EOF", 1)>>)

\* 1.1. has been scanned: NUMBER(1.1), DOT, EOF.
C23_Witness ==
    /\ source = <<"1", ".", "1", ".">>
    /\ scanned # NoResult /\ scanned.ok
    /\ tokens = <<[tt |-> "NUMBER", num |-> 11, den |-> 10, line |-> 1],
                  Tok("DOT", 1), Tok("EOF", 1)>>

ReservedWords ==
    {"and", "class", "else", "false", "for", "fun", "if", "nil", "or", "print",
     "return", "super", "this", "true", "var", "while"}
IdentifierChars == Letters \cup {"_"}

\* C24: an identifier lexeme is the longest run of letters and underscores
\* from a letter or underscore (a digit ends it); the token is the keyword
\* exactly when the whole lexeme is one of the 16 reserved words, and
\* IDENTIFIER(lexeme) otherwise.
C24_IdentifierOrKeyword ==
    /\ [](DOMAIN keywords = ReservedWords /\ Cardinality(ReservedWords) = 16
          /\ Digits \cap IdentifierChars = {})
    /\ [][AtChar(IdentifierChars) =>
            \E j \in (chars + 1)..(Len(source) + 1) :
                /\ AllIn(chars, j, IdentifierChars)
                /\ j <= Len(source) => source[j] \notin IdentifierChars
                /\ LET word == Lexeme(chars, j)
                   IN IF word \in ReservedWords
                      THEN Emits(Tok(keywords[word], cur_line), j)
                      ELSE Emits(IdentTok(word, cur_line), j)]_vars

\* orr1 has been scanned: IDENTIFIER(orr), NUMBER(1), EOF.
C24_Witness ==
    /\ source = <<"o", "r", "r", "1">>
    /\ scanned # NoResult /\ scanned.ok
    /\ tokens = <<IdentTok("orr", 1), NumberTok(1, 1), Tok("EOF", 1)>>

Single(c) ==
    CASE c = "!" -> "BANG" [] c = "=" -> "EQUAL" [] c = "<" -> "LESS" [] c = ">" -> "GREATER"
WithEqual(c) ==
    CASE c = "!" -> "BANG_EQUAL" [] c = "=" -> "EQUAL_EQUAL" [] c = "<" -> "LESS_EQUAL"
      [] c = ">" -> "GREATER_EQUAL"

\* C25: at ! = < or >, when the next character is = the scanner emits the
\* two-character token and takes both characters, else it emits the
\* one-character token and takes one character.
C25_OneCharacterLookahead ==
    [][AtChar({"!", "=", "<", ">"}) =>
          IF chars < Len(source) /\ source[chars + 1] = "="
          THEN Emits(Tok(WithEqual(source[chars]), cur_line), chars + 2)
          ELSE Emits(Tok(Single(source[chars]), cur_line), chars + 1)]_vars

\* <==! has been scanned: LESS_EQUAL, EQUAL, BANG, EOF.
C25_Witness ==
    /\ source = <<"<", "=", "=", "!">>
    /\ scanned # NoResult /\ scanned.ok
    /\ tokens = <<Tok("LESS_EQUAL", 1), Tok("EQUAL", 1), Tok("BANG", 1), Tok("EOF", 1)>>

\* The line of the character at index i: 1 plus the newlines before it.
LineAt(i) == 1 + Cardinality({k \in 1..(i - 1) : source[k] = "\n"})
InComment == AtChar({"/"}) /\ chars < Len(source) /\ source[chars + 1] = "/"

\* C28: every token's line is 1 plus the number of newlines in the source
\* before the end of the token (a string over several lines carries the line
\* of its closing quote), a // comment takes the characters up to but not
\* its newline, and the lines never decrease along the tokens.
C28_TokenLines ==
    /\ [][/\ (tokens' # tokens /\ tokens' # <<>>) =>
                tokens'[Len(tokens')].line = LineAt(chars')
          /\ InComment =>
                /\ tokens' = tokens
                /\ chars' > chars + 1
                /\ \A k \in chars..(chars' - 1) : source[k] # "\n"
                /\ chars' <= Len(source) => source[chars'] = "\n"]_vars
    /\ [](\A i, j \in DOMAIN tokens : i <= j => tokens[i].line <= tokens[j].line)

\* A string with a newline in it, then ; : both tokens are on line 2.
C28_Witness ==
    /\ source = <<"\"", "\n", "\"", ";">>
    /\ scanned # NoResult /\ scanned.ok
    /\ tokens = <<StringTok("\n", 2), Tok("SEMICOLON", 2), Tok("EOF", 2)>>

\* ----- parser claims, second part

StatementStarts == {"CLASS", "FUN", "VAR", "FOR", "IF", "WHILE", "PRINT", "RETURN"}
\* The indices from i on of a `;` or of a keyword that starts a statement.
Boundaries(i) ==
    {k \in i..Len(tokens) : tokens[k].tt \in {"SEMICOLON"} \cup StatementStarts}
Least(S) == CHOOSE k \in S : \A m \in S : k <= m

\* C26: synchronization discards the tokens up to and including the next ;
\* or up to but not including the next keyword that starts a statement: the
\* next token the parser reads is the one after that ; or that keyword.
C26_SynchronizeBoundary ==
    (opOut # NoResult /\ opIn.op = "synchronize" /\ Boundaries(opIn.p) # {})
        => LET k == Least(Boundaries(opIn.p))
           IN opOut.ps.p = IF tokens[k].tt = "SEMICOLON" THEN k + 1 ELSE k

\* Every Assign node of an expression, of a statement, has a name as target.
RECURSIVE TargetsNamed(_)
TargetsNamed(e) ==
    CASE e.e = "Assign" -> e.n.tt = "IDENTIFIER" /\ TargetsNamed(e.v)
      [] e.e \in {"Grouping", "Unary"} -> TargetsNamed(e.x)
      [] e.e \in {"Binary", "Logical"} -> TargetsNamed(e.l) /\ TargetsNamed(e.r)
      [] e.e = "Call" ->
            TargetsNamed(e.callee) /\ \A i \in DOMAIN e.args : TargetsNamed(e.args[i])
      [] OTHER -> TRUE
RECURSIVE StmtTargetsNamed(_)
StmtTargetsNamed(st) ==
    CASE st.s \in {"Expr", "Print"} -> TargetsNamed(st.x)
      [] st.s = "Var" -> \A i \in DOMAIN st.init : TargetsNamed(st.init[i])
      [] st.s = "Block" -> \A i \in DOMAIN st.stmts : StmtTargetsNamed(st.stmts[i])
      [] st.s = "If" ->
            /\ TargetsNamed(st.c) /\ StmtTargetsNamed(st.th)
            /\ \A i \in DOMAIN st.el : StmtTargetsNamed(st.el[i])
      [] st.s = "While" -> TargetsNamed(st.c) /\ StmtTargetsNamed(st.body)
      [] st.s = "Function" -> StmtTargetsNamed(st.body)
      [] OTHER -> TRUE

\* C27: the parser produces no Assign node whose target is not a variable:
\* when the left-hand side of = parsed as anything else, parsing stops
\* fatally and returns no statement list.
C27_AssignTargetIsVariable ==
    /\ (parsed # NoResult /\ parsed.st = "ok") =>
          \A i \in DOMAIN parsed.x : StmtTargetsNamed(parsed.x[i])
    /\ (tokens \in BadTargetInputs /\ parsed # NoResult) =>
          (status = "panicked" /\ parsed.st = "panic" /\ "x" \notin DOMAIN parsed)

\* a + b = 1; has stopped the parser.
C27_Witness ==
    /\ tokens = Words(<<"a", "+", "b", "=", "1", ";">>)
    /\ status = "panicked"
    /\ parsed # NoResult /\ "x" \notin DOMAIN parsed

\* C30: on every token sequence, with or without the EOF at the end, parse
\* returns a statement list or an error value; it never aborts the process.
C30_ParseNeverAborts ==
    (status # "panicked") /\ (parsed # NoResult => parsed.st \in {"ok", "err"})

\* ----- run_with_env claims, second part

====
